---------------------------- MODULE Spec2Model ----------------------------
(***************************************************************************)
(* Turn-scheduled peer trading (tallerGrande1Copy2/client).                *)
(*                                                                         *)
(* Each peer holds a list of cards (NumberList.numbers), runs a            *)
(* non-blocking PeerServer that answers trade requests, and during its own *)
(* time slot drives TradeManager.negotiate().  The specifications share   *)
(* the definitions below:                                                  *)
(*   Spec      - the peers of one cohort trading with each other;          *)
(*   SpecPass  - the same peers, first request of each, nothing fails;     *)
(*   SpecCohort - two started peers, with reads that time out;             *)
(*   SpecOpen  - the PeerServer of the peers against arbitrary clients     *)
(*               (SpecBatch, SpecBurst, SpecServe: its loops);             *)
(*   SpecReply - one pass of a peer against arbitrary responders;          *)
(*   SpecPeer  - one peer serving any client and asking any responder;     *)
(*   SpecRound - one negotiate_with_peer call, loop by loop;               *)
(*   SpecTurn  - the run loop and the TurnCoordinator against the clock    *)
(*               (FairSpecTurn adds the scheduling fairness).              *)
(* The programs around the peers have a specification each:                *)
(*   SpecIndex - the index that registers the peers and deals the cards    *)
(*               (tallerGrande1Copy2/index, tallerGrande1/index/model);    *)
(*   SpecJoins - its model classes called from concurrent handlers         *)
(*               (tallerGrande1 and tallerGrande1 (Copy));                 *)
(*   SpecList  - one NumberList (tallerGrande1/client/model);              *)
(*   SpecStore - the store demo (taller_tiendaMiddle).                     *)
(*                                                                         *)
(* The card list is kept as its count vector: every read of the list in    *)
(* the code is numbers.count(i), set(numbers) or sorted(numbers).          *)
(* Times are in tenths of a second.                                        *)
(***************************************************************************)
EXTENDS Integers, Sequences, FiniteSets, TLC

\* ------------------------------------------------------------------ bounds
\* Number of peers in the cohort (TOTAL_CLIENTS of the index).
NumPeers == 2
\* Number of card values; the code uses range(11) and hands out 11 cards.
NumValues == 3
\* Connections opened in one behaviour of Spec / SpecOpen.
MaxTrades == 1
\* Clock samples per turn slot (SpecTurn).
TicksPerSlot == 2
\* Trade requests of one negotiate() pass (SpecTurn); the loops of negotiate
\* allow total_peers * max_attempts_per_peer * 3 * 2.
MaxRequests == 2

\* cycles of the turn schedule over which get_current_turn is evaluated
MaxCycles == 2
\* connections the clients of SpecBurst open in all
BurstSize == 6

Peers == 1..NumPeers
Values == 0..(NumValues - 1)

\* ------------------------------------------------------- program constants
max_connections_per_cycle == 5
\* conn.settimeout(0.3), in tenths of a second
read_timeout == 3
\* self.sock.listen(5)
listen_backlog == 5
max_rounds == 25
\* 30 s, in tenths of a second
max_serve_time == 300

VARIABLES
    \* --- trading (Spec, SpecOpen)
    numbers,    \* numbers[p]: the card counts of peer p's NumberList
    sock,       \* sock[p]: "None" | "listening" (PeerServer.sock)
    backlog,    \* backlog[p]: ids of connections waiting in the listen queue
    conns,      \* every connection opened so far, by id
    att,        \* att[p]: id of the connection p is blocked on in attempt_trade, or 0
    negotiating,\* negotiating[p]: p is inside TradeManager.negotiate()
    negotiate_result, \* what p's last call of negotiate() returned, or "none"
    pass_start, \* pass_start[p]: connections opened before p's current pass
    processed,  \* processed[p]: connections_processed when p's last
                \* process_once() returned, -1 before the first call
    blocked_for,\* blocked_for[p]: time that call spent in recv timeouts
    \* --- one peer's run loop against the clock (SpecTurn)
    now,                 \* time.time() - system_start_time, modulo one cycle
    my_turn,             \* TurnCoordinator.my_turn
    my_turn_completed,   \* TurnCoordinator.my_turn_completed
    pc,                  \* position of ClientController.run
    round_count,         \* round_count of run()
    collection_complete, \* what numbers.is_complete_set() returns
    serving_for,         \* time.time() - completed_time, -1 while it is None
    idle_left,           \* end_time - time.time() of the idle loop
    requests,            \* trade requests sent in the current negotiate() pass
    last_sent_turn,      \* active turn when the last request of the pass was sent
    away,                \* the active turn has left my slot since complete_my_turn
    \* --- the index (SpecIndex)
    pool,        \* NumberPool._pool: copies left of each value
    clients,     \* ClientRegistry._clients: the registered names, in order
    connections, \* the connections the index kept in self.connections, in
                 \* the order they joined, with what was written to them
    rejected,    \* the reason the index wrote to the latest connection it did
                 \* not keep ("closed": it wrote nothing), "none" before
    running,     \* the accept loop of IndexController.start is running
    \* --- one NumberList (SpecList)
    number_list, \* NumberList.numbers, as the list it is
    answer,      \* what the last is_complete_set() returned, "none" before
    \* --- the store demo (SpecStore)
    productos,       \* inventario.productos: stock of each product id
    carrito_compras, \* middleWare.carrito_compras["productos"]
    sale,            \* position of middleWareController
    \* --- one negotiate_with_peer call (SpecRound)
    frame,           \* the locals of the call and the inventory it works on
    \* --- concurrent calls of the allocator's model classes (SpecJoins)
    threads,         \* threads[t]: position and locals of handler thread t
    registry_lock,   \* ClientRegistry._lock: the thread holding it, or 0
    pool_lock,       \* NumberPool._lock: the thread holding it, or 0
    pool_has_lock    \* the NumberPool class in use has a _lock

passVars == <<negotiate_result, pass_start>>

serverVars == <<processed, blocked_for>>

tradeVars == <<numbers, sock, backlog, conns, att, negotiating, passVars,
               serverVars>>

turnVars == <<now, my_turn, my_turn_completed, pc, round_count,
              collection_complete, serving_for, idle_left, requests,
              last_sent_turn, away>>

indexVars == <<pool, clients, connections, rejected, running>>

listVars == <<number_list, answer>>

storeVars == <<productos, carrito_compras, sale>>

roundVars == <<frame>>

callVars == <<threads, registry_lock, pool_lock, pool_has_lock>>

\* the variables of the programs besides the trading peers
extVars == <<indexVars, listVars, storeVars, roundVars, callVars>>

vars == <<tradeVars, turnVars, extVars>>

\* ------------------------------------------------------------ NumberList
count(nums, v) == nums[v]

missing(nums) == {n \in Values : nums[n] = 0}

duplicates(nums) == {n \in Values : nums[n] > 1}

is_complete_set(nums) == \A v \in Values : nums[v] >= 1

\* list.remove(v): one copy less (the callers below guard count > 0)
remove(nums, v) == [nums EXCEPT ![v] = @ - 1]

\* list.append(v)
append(nums, v) == [nums EXCEPT ![v] = @ + 1]

\* ------------------------------------------------------------- JSON values
\* request.get("offer") is an int or None
None == [isNone |-> TRUE, val |-> 0]
Num(v) == [isNone |-> FALSE, val |-> v]
\* ... or, from a client that is not this program, a JSON text
Text == [isNone |-> FALSE, isText |-> TRUE, val |-> 0]
is_text(x) == "isText" \in DOMAIN x

Accepted(w) == [status |-> "accepted", given |-> w]
Rejected(r) == [status |-> "rejected", reason |-> r]
Error(r) == [status |-> "error", reason |-> r]

TradeRequest(p, offer, want) ==
    [action |-> "trade", offer |-> offer, want |-> want, from |-> p]

\* ------------------------------------------------- PeerServer._process_trade
\* (variant of valid_numbers: the lower end of the range is left out)
valid_numbers_above_zero(offer, want) ==
    /\ ~offer.isNone
    /\ ~want.isNone
    /\ 0 < offer.val /\ offer.val <= NumValues - 1
    /\ 0 < want.val /\ want.val <= NumValues - 1

valid_numbers(offer, want) ==
    /\ ~offer.isNone
    /\ ~want.isNone
    /\ 0 <= offer.val /\ offer.val <= NumValues - 1
    /\ 0 <= want.val /\ want.val <= NumValues - 1

missing_count(counts) == Cardinality({i \in Values : counts[i] = 0})

\* (variant of beneficial: "does not increase" instead of "decreases")
beneficial_not_strict(counts, offer, want) ==
    LET t1 == [counts EXCEPT ![want] = @ - 1]
        temp_counts == [t1 EXCEPT ![offer] = @ + 1]
    IN  missing_count(temp_counts) <= missing_count(counts)

\* the special case: holds a single copy of want and already holds offer
beneficial(counts, offer, want) ==
    LET t1 == [counts EXCEPT ![want] = @ - 1]
        temp_counts == [t1 EXCEPT ![offer] = @ + 1]
    IN  missing_count(temp_counts) < missing_count(counts)

\* (variant of should_accept: the naive "only give away duplicates" policy)
should_accept_duplicates_only(counts, offer, want) ==
    IF counts[want] = 0 THEN FALSE ELSE counts[want] > 1

\* (variant of should_accept: a card that is held is always given)
should_accept_any_held(counts, offer, want) == counts[want] > 0

should_accept(counts, offer, want) ==
    IF counts[want] = 0 THEN FALSE
    ELSE IF counts[offer] = 0 THEN TRUE
    ELSE IF counts[want] > 1 THEN TRUE
    ELSE beneficial(counts, offer, want)

\* the reason set while deciding ("" when none was set)
decide_reason(counts, offer, want) ==
    IF counts[want] = 0 THEN "no tengo"
    ELSE IF counts[offer] = 0 THEN ""
    ELSE IF counts[want] > 1 THEN ""
    ELSE IF beneficial(counts, offer, want) THEN ""
    ELSE "ya tengo la oferta y necesito mi unico"

reject_reason(counts, offer, want) ==
    LET reason == decide_reason(counts, offer, want)
    IN  IF reason # "" THEN reason
        ELSE IF counts[want] = 0 THEN "no tengo"
        ELSE "trade no beneficioso"

\* (variant of process_trade: the count of want is never looked at)
process_trade_want_unchecked(nums, request) ==
    IF ~valid_numbers(request.offer, request.want)
    THEN [numbers |-> nums, response |-> Rejected("numeros invalidos")]
    ELSE LET offer == request.offer.val
             want == request.want.val
         IN  IF nums[offer] = 0 \/ nums[want] > 1
             THEN [numbers |-> append(remove(nums, want), offer),
                   response |-> Accepted(want)]
             ELSE [numbers |-> nums,
                   response |-> Rejected(reject_reason(nums, offer, want))]

\* (variant of process_trade: the offered card is not appended)
process_trade_no_append(nums, request) ==
    IF ~valid_numbers(request.offer, request.want)
    THEN [numbers |-> nums, response |-> Rejected("numeros invalidos")]
    ELSE LET offer == request.offer.val
             want == request.want.val
         IN  IF should_accept(nums, offer, want) /\ nums[want] > 0
             THEN [numbers |-> remove(nums, want),
                   response |-> Accepted(want)]
             ELSE [numbers |-> nums,
                   response |-> Rejected(reject_reason(nums, offer, want))]

\* returns the inventory after the call and the response
process_trade(nums, request) ==
    IF ~valid_numbers(request.offer, request.want)
    THEN [numbers |-> nums, response |-> Rejected("numeros invalidos")]
    ELSE LET offer == request.offer.val
             want == request.want.val
         IN  IF should_accept(nums, offer, want) /\ nums[want] > 0
             THEN [numbers |-> append(remove(nums, want), offer),
                   response |-> Accepted(want)]
             ELSE [numbers |-> nums,
                   response |-> Rejected(reject_reason(nums, offer, want))]

\* ---------------------------------------- PeerServer._handle_connection_sync
\* payload.data: "json" (payload.request is the parsed object), "notobject"
\* (JSON, but a list, number or text), "garbage" (not JSON), "notutf8" (bytes
\* that are no UTF-8), "empty" (peer closed without sending), "silent"
\* (nothing sent within the 0.3 s read timeout).  A payload with a field
\* "gone" comes from a client that has reset the connection by the time the
\* reply is sent.
gone(payload) == "gone" \in DOMAIN payload

\* the validity test of _process_trade compares offer, then want, with 0 and
\* 10: comparing a text raises TypeError
process_trade_raises(request) ==
    /\ ~request.offer.isNone
    /\ ~request.want.isNone
    /\ \/ is_text(request.offer)
       \/ /\ 0 <= request.offer.val /\ request.offer.val <= NumValues - 1
          /\ is_text(request.want)

\* the exception raised inside the try block ("" when none is)
handler_raises(payload) ==
    IF payload.data = "silent" THEN "socket.timeout"
    ELSE IF payload.data = "empty" THEN ""
    ELSE IF payload.data = "notutf8" THEN "UnicodeDecodeError"
    ELSE IF payload.data = "notobject" THEN "AttributeError"
    ELSE IF payload.data = "json" /\ payload.request.action = "trade"
            /\ process_trade_raises(payload.request) THEN "TypeError"
    ELSE IF gone(payload) THEN "ConnectionResetError"
    ELSE ""

\* except socket.timeout / except ConnectionResetError / except Exception
handler_catches(exc) ==
    \/ exc = "socket.timeout"
    \/ exc = "ConnectionResetError"
    \/ exc \in {"UnicodeDecodeError", "AttributeError", "TypeError"}

\* the line handed to sendall, if the handler gets that far
handler_response(nums, payload) ==
    IF payload.data \in {"empty", "silent", "notutf8", "notobject"}
    THEN [numbers |-> nums, out |-> <<>>]
    ELSE IF payload.data = "garbage"
    THEN [numbers |-> nums, out |-> <<Error("invalid_json")>>]
    ELSE IF payload.request.action = "trade"
    THEN IF process_trade_raises(payload.request)
         THEN [numbers |-> nums, out |-> <<>>]
         ELSE LET r == process_trade(nums, payload.request)
              IN  [numbers |-> r.numbers, out |-> <<r.response>>]
    ELSE [numbers |-> nums, out |-> <<Error("unknown_action")>>]

\* (variant of handle_connection_sync: conn.close() at the end of the try
\* block instead of in "finally")
handle_connection_sync_close_in_try(nums, payload) ==
    LET r == handler_response(nums, payload)
        exc == handler_raises(payload)
    IN  [numbers |-> r.numbers, out |-> r.out,
         sent |-> (r.out # <<>> /\ exc = ""),
         escaped |-> (exc # "" /\ ~handler_catches(exc)),
         closed |-> (exc = "" /\ payload.data # "empty"
                             /\ payload.data # "garbage")]

\* Returns the inventory, the line handed to sendall, whether sendall
\* delivered it, whether an exception leaves the handler, and whether
\* conn.close() has run.
handle_connection_sync(nums, payload) ==
    LET r == handler_response(nums, payload)
        exc == handler_raises(payload)
    IN  [numbers |-> r.numbers, out |-> r.out,
         sent |-> (r.out # <<>> /\ exc = ""),
         escaped |-> (exc # "" /\ ~handler_catches(exc)),
         closed |-> TRUE]

IsAccepted(out) == out # <<>> /\ out[1].status = "accepted"

\* ------------------------------------------------- PeerServer.process_once
\* accept() and handle connections one after another until the listen queue
\* is empty (BlockingIOError), max_connections_per_cycle were handled, or an
\* exception leaves the handler ("except Exception: break")
\* (variant of batch_full: the loop has no bound)
batch_never_full(connections_processed) == FALSE

\* the negation of "while connections_processed < max_connections_per_cycle"
batch_full(connections_processed) ==
    connections_processed >= max_connections_per_cycle

\* (variant of drain: every connection of the batch is evaluated against
\* the inventory the batch started with)
RECURSIVE drain_same_inventory(_, _, _, _)
drain_same_inventory(nums, cs, queue, connections_processed) ==
    IF queue = <<>> \/ batch_full(connections_processed)
    THEN [numbers |-> nums, conns |-> cs, backlog |-> queue,
          connections_processed |-> connections_processed]
    ELSE LET id == Head(queue)
             h == handle_connection_sync(nums, cs[id].payload)
             handled ==
                 [cs EXCEPT ![id].server = "handled",
                            ![id].out = h.out,
                            ![id].sent = h.sent,
                            ![id].escaped = h.escaped,
                            ![id].closed = h.closed,
                            ![id].pre = nums,
                            ![id].post = h.numbers,
                            ![id].applied_by_responder =
                                @ + (IF IsAccepted(h.out) THEN 1 ELSE 0)]
             rest == drain_same_inventory(nums, handled, Tail(queue),
                                          connections_processed + 1)
         IN  IF h.numbers = nums THEN rest
             ELSE [rest EXCEPT !.numbers = h.numbers]

RECURSIVE drain(_, _, _, _)
drain(nums, cs, queue, connections_processed) ==
    IF queue = <<>> \/ batch_full(connections_processed)
    THEN [numbers |-> nums, conns |-> cs, backlog |-> queue,
          connections_processed |-> connections_processed]
    ELSE LET id == Head(queue)
             handled(h) ==
                 [cs EXCEPT ![id].server = "handled",
                            ![id].out = h.out,
                            ![id].sent = h.sent,
                            ![id].escaped = h.escaped,
                            ![id].closed = h.closed,
                            ![id].pre = nums,
                            ![id].post = h.numbers,
                            ![id].applied_by_responder =
                                @ + (IF IsAccepted(h.out) THEN 1 ELSE 0)]
             \* _handle_connection_sync is called once for the connection
             after ==
                 {IF h.escaped
                  THEN [numbers |-> h.numbers, conns |-> handled(h),
                        backlog |-> Tail(queue),
                        connections_processed |-> connections_processed]
                  ELSE drain(h.numbers, handled(h), Tail(queue),
                             connections_processed + 1) :
                     h \in {handle_connection_sync(nums, cs[id].payload)}}
         IN  CHOOSE d \in after : TRUE

\* ---------------------------------------------------------- initial states
\* NumberPool hands every peer NumValues cards out of NumPeers copies of
\* each value (index controller: pool.assign_list(length=11)).
Inventories == {f \in [Values -> 0..NumValues] :
                   LET S[k \in 0..NumValues] ==
                           IF k = 0 THEN 0 ELSE S[k - 1] + f[k - 1]
                   IN  S[NumValues] = NumValues}

Total(nums, v) ==
    LET S[k \in 0..NumPeers] == IF k = 0 THEN 0 ELSE S[k - 1] + nums[k][v]
    IN  S[NumPeers]

Allocations == {a \in [Peers -> Inventories] :
                   \A v \in Values : Total(a, v) = NumPeers}

\* Peer names are only labels in the trade protocol: Spec starts from the
\* allocations up to a renaming of the peers (inventories in rank order).
Rank(inv) ==
    LET S[k \in 0..NumValues] ==
            IF k = 0 THEN 0 ELSE S[k - 1] * (NumValues + 1) + inv[k - 1]
    IN  S[NumValues]

RankedAllocations ==
    {a \in Allocations :
        \A p \in Peers : p < NumPeers => Rank(a[p]) >= Rank(a[p + 1])}

NewConn(p, q, payload, served) ==
    [from |-> p, to |-> q, payload |-> payload,
     client |-> IF served THEN "waiting" ELSE "closed",
     server |-> IF served THEN "queued" ELSE "refused",
     out |-> <<>>, sent |-> FALSE, escaped |-> FALSE, closed |-> FALSE,
     result |-> IF served THEN "pending" ELSE "False",
     pre |-> numbers[q], post |-> numbers[q],
     applied_by_responder |-> 0, applied_by_initiator |-> 0]

\* ------------------------------------------------------------- the index
\* (tallerGrande1Copy2/index/controller/controller.py with the model classes
\* of tallerGrande1/index/model)
\* TOTAL_CLIENTS of the environment: the size of the group
TOTAL_CLIENTS == 3

\* assign_list(length=11), and the 11 values of range(11) in the pool
list_length == 2

PoolValues == 0..(list_length - 1)

\* len() of a list kept as its count vector
len(counts) ==
    LET S[k \in 0..list_length] == IF k = 0 THEN 0 ELSE S[k - 1] + counts[k - 1]
    IN  S[list_length]

Min(a, b) == IF a <= b THEN a ELSE b

\* NumberPool.__init__: total_clients copies of every value
NumberPool == [v \in PoolValues |-> TOTAL_CLIENTS]

\* (variant of assign_list: random.choice over all values, whatever is left)
assign_list_any_value(pl, length) ==
    {chosen \in [PoolValues -> 0..length] : len(chosen) = length}

\* NumberPool.assign_list: min(length, len(available)) picks, each one out of
\* what is left of the pool; the lists it can return, as count vectors (the
\* order of a list is not kept)
assign_list(pl, length) ==
    {chosen \in [PoolValues -> 0..length] :
        /\ \A v \in PoolValues : chosen[v] <= pl[v]
        /\ len(chosen) = Min(length, len(pl))}

\* self._pool[pick] -= 1, for every pick
picked(pl, chosen) == [v \in PoolValues |-> pl[v] - chosen[v]]

\* ClientRegistry.add_client: an entry of the same name is removed, the new
\* one is appended (entries are kept by name; ip and port are not read)
add_client(cs, name) == Append(SelectSeq(cs, LAMBDA c : c # name), name)

Waiting == [status |-> "waiting"]
Done == [status |-> "done"]
Ok(peers, nums, turn) ==
    [status |-> "ok", peers |-> peers, numbers |-> nums, turn |-> turn]

JoinRequest(name) == [action |-> "join", name |-> name]

\* the names a join may carry when cs are registered: one of them or a new
\* one (the new names are taken in order)
Names(cs) == 1..Min(Len(cs) + 1, TOTAL_CLIENTS)

\* what a client may send to the index: a join, another action, a line that
\* is no JSON, a JSON value that is no object, or nothing
IndexPayloads(cs) ==
    {[data |-> "json", request |-> JoinRequest(n)] : n \in Names(cs)}
    \cup {[data |-> "json", request |-> [action |-> "trade"]],
          [data |-> "garbage"], [data |-> "notobject"], [data |-> "empty"]}

is_join(payload) ==
    payload.data = "json" /\ payload.request.action = "join"

\* join() has not returned yet
Pending == [status |-> "pending"]

\* join() returned None
NoResponse == [status |-> "None"]

\* IndexController._handle_client: the registry and the pool after the call,
\* whether the connection was put into self.connections, and what was
\* written to it
handle_client(pl, cs, payload, chosen) ==
    IF is_join(payload)
    THEN LET peers == add_client(cs, payload.request.name)
             turn == Len(peers)
         IN  [pool |-> picked(pl, chosen), clients |-> peers, kept |-> TRUE,
              conn |-> [name |-> payload.request.name,
                        numbers |-> chosen, turn |-> turn,
                        lines |-> IF Len(peers) < TOTAL_CLIENTS
                                  THEN <<Waiting>> ELSE <<>>,
                        open |-> TRUE, got |-> Pending]]
    ELSE [pool |-> pl, clients |-> cs, kept |-> FALSE,
          reason |-> IF payload.data = "garbage" THEN "invalid_json"
                     ELSE IF payload.data = "json" THEN "unsupported_action"
                     ELSE "closed"]

\* IndexController._send_final_state: ok and done to every connection of
\* self.connections, which is then closed
send_final_state(cns, peers) ==
    [id \in DOMAIN cns |->
        [cns[id] EXCEPT
            !.lines = @ \o <<Ok(peers, cns[id].numbers, cns[id].turn), Done>>,
            !.open = FALSE]]

\* the first line of lines that is not waiting (0: there is none)
first_answer(lines) ==
    LET answers == {k \in DOMAIN lines : lines[k].status # "waiting"}
    IN  IF answers = {} THEN 0
        ELSE CHOOSE k \in answers : \A other \in answers : k <= other

\* IndexClient.join, from the first f.readline() on: what it returns when
\* the index wrote lines and then closed or kept the connection open
\* (Pending: it is still blocked in readline)
join(lines, open) ==
    LET k == first_answer(lines)
    IN  IF k = 0 THEN (IF open THEN Pending ELSE NoResponse)
        ELSE IF lines[k].status = "ok" THEN lines[k]
        ELSE NoResponse

IndexIdle ==
    /\ pool = NumberPool
    /\ clients = <<>>
    /\ connections = <<>>
    /\ rejected = "none"
    /\ running = FALSE

\* ------------------------------------------------------------ NumberList
\* (the list itself: tallerGrande1/client/model/number_list.py)
\* longest list drawn for SpecList
MaxLen == 4

set(l) == {l[i] : i \in DOMAIN l}

\* collections.Counter(self.numbers), read at the card values
counts(l) == [v \in Values |-> Cardinality({i \in DOMAIN l : l[i] = v})]

\* (variant of NumberList_is_complete_set: the subset test the other way)
NumberList_is_complete_set_reversed(l) == set(l) \subseteq Values

\* set(range(11)).issubset(set(self.numbers))
NumberList_is_complete_set(l) == Values \subseteq set(l)

ListIdle ==
    /\ number_list = <<>>
    /\ answer = "none"

\* ------------------------------------------------------------ store demo
\* (taller_tiendaMiddle: middleWare/middleWare.py, inventario/inventario.py,
\* tienda/tienda.py)
\* products in the catalogue
NumProducts == 2
\* stock of every product when the inventory service starts
InitialStock == 2
\* items in one cart
MaxItems == 2

Products == 1..NumProducts

Item(id, comprar) == [id |-> id, comprar |-> comprar]

\* tienda.crear_orden: the user names a product and a quantity for each item;
\* nothing keeps a product from being named twice
Carts ==
    UNION {[1..n -> {Item(id, c) : id \in Products, c \in 0..InitialStock}] :
               n \in 0..MaxItems}

\* inventario.validar_stock: "disponible" of the result
validar_stock(stock, carrito) ==
    \A k \in DOMAIN carrito : ~(stock[carrito[k].id] < carrito[k].comprar)

\* inventario.actualizar_inventario: the stock after the call
actualizar_inventario(stock, carrito, tipo_operacion) ==
    LET S[k \in 0..Len(carrito)] ==
            IF k = 0 THEN stock
            ELSE [S[k - 1] EXCEPT ![carrito[k].id] =
                     IF tipo_operacion = "compra"
                     THEN @ + carrito[k].comprar
                     ELSE @ - carrito[k].comprar]
    IN  S[Len(carrito)]

StoreIdle ==
    /\ productos = [id \in Products |-> InitialStock]
    /\ carrito_compras = <<>>
    /\ sale = "idle"

\* ------------------------------------------- one negotiate_with_peer call
\* (tallerGrande1Copy2/client/controller/trade_manager.py, on an inventory
\* of HandSize cards over the values of range(RangeSize))
\* the 11 of range(11) in get_trade_opportunities
RangeSize == 5
\* the 11 cards of an inventory
HandSize == 5

\* the peers of the cohort, as the index lists them (the peer itself
\* included)
CohortSize == 5

\* (variant of max_attempts_per_peer: the same for every cohort)
max_attempts_per_peer_always_3(total_peers) == 3

\* TradeManager.__init__: max_attempts_per_peer, from
\* total_peers = len(peers.get_all()) - 1
max_attempts_per_peer(total_peers) == IF total_peers >= 4 THEN 2 ELSE 3

\* len(peers.get_all()) when ClientController.__init__ builds the
\* TradeManager: the PeerTable has just loaded peers.json, which is absent
\* on a first run and otherwise holds the table an earlier run was sent, of
\* this cohort or of one with a peer fewer.  join_index() fills the table
\* afterwards.
StoredPeers == {0, CohortSize - 1, CohortSize}

RoundValues == 0..(RangeSize - 1)

\* len(self.numbers.numbers) on the count vector
hand_len(nums) ==
    LET T[k \in 0..RangeSize] == IF k = 0 THEN 0 ELSE T[k - 1] + nums[k - 1]
    IN  T[RangeSize]

\* the inventories of HandSize cards, as count vectors
Hands == {h \in [RoundValues -> 0..HandSize] : hand_len(h) = HandSize}

\* get_trade_opportunities: the values held more than once, and not at all
get_trade_opportunities(nums) ==
    [duplicates |-> {n \in DOMAIN nums : nums[n] > 1},
     missing    |-> {n \in DOMAIN nums : nums[n] = 0}]

\* sorted(missing)[:3]
sorted_first_3(S) ==
    LET low == {w \in S : Cardinality({u \in S : u < w}) < 3}
    IN  [i \in 1..Cardinality(low) |->
            CHOOSE w \in low : Cardinality({u \in low : u < w}) = i - 1]

\* what duplicates_shuffled[:2] can be after random.shuffle
shuffled_first_2(S) ==
    {s \in [1..Min(2, Cardinality(S)) -> S] :
        \A i, j \in DOMAIN s : i # j => s[i] # s[j]}

\* NumberList.is_complete_set on the count vector
hand_is_complete_set(nums) == \A n \in DOMAIN nums : nums[n] >= 1

\* negotiate_with_peer has not been called
NoFrame ==
    [pc |-> "idle", total_peers |-> -1,
     numbers |-> [n \in RoundValues |-> 0], attempt |-> 0,
     trades_made |-> 0, trade_made |-> FALSE, missing_prioritized |-> <<>>,
     duplicates_shuffled |-> <<>>, want |-> 0, offer |-> 0,
     removed |-> "none", returned |-> "none"]

RoundIdle == frame = NoFrame

\* ------------------------------- concurrent calls of the model classes
\* two connection handlers running at the same time
Handlers == {1, 2}

NoCall ==
    [pc |-> "idle", name |-> 0, left |-> 0,
     available |-> [v \in PoolValues |-> 0],
     chosen |-> [v \in PoolValues |-> 0]]

\* no handler thread is running
CallsIdle ==
    /\ threads = [t \in Handlers |-> NoCall]
    /\ registry_lock = 0
    /\ pool_lock = 0
    /\ pool_has_lock = TRUE

\* the programs besides the trading peers are not running
ExtIdle ==
    /\ IndexIdle
    /\ ListIdle
    /\ StoreIdle
    /\ RoundIdle
    /\ CallsIdle

ServerIdle ==
    /\ processed = [p \in Peers |-> -1]
    /\ blocked_for = [p \in Peers |-> 0]

\* negotiate() has not been called yet
PassIdle ==
    /\ negotiate_result = [p \in Peers |-> "none"]
    /\ pass_start = [p \in Peers |-> 0]

\* the run-loop variables before run() is entered
TurnIdle ==
    /\ now = 0
    /\ my_turn = 1
    /\ my_turn_completed = FALSE
    /\ pc = "loop"
    /\ round_count = 0
    /\ collection_complete = FALSE
    /\ serving_for = -1
    /\ idle_left = 0
    /\ requests = 0
    /\ last_sent_turn = 0
    /\ away = FALSE

Init ==
    /\ numbers \in RankedAllocations
    /\ TurnIdle
    /\ sock = [p \in Peers |-> "None"]
    /\ backlog = [p \in Peers |-> <<>>]
    /\ conns = <<>>
    /\ att = [p \in Peers |-> 0]
    /\ negotiating = [p \in Peers |-> FALSE]
    /\ PassIdle
    /\ ServerIdle
    /\ ExtIdle

\* ------------------------------------------------------------------ actions
\* ClientController.run: peer_server.start("0.0.0.0", CLIENT_PORT)
Start(p) ==
    /\ sock[p] = "None"
    /\ sock' = [sock EXCEPT ![p] = "listening"]
    /\ UNCHANGED <<numbers, backlog, conns, att, negotiating, passVars,
                   serverVars, turnVars>>
    /\ UNCHANGED extVars

\* an attempt_trade of p's current pass returned True
successful(p) ==
    \E id \in (pass_start[p] + 1)..Len(conns) :
        conns[id].from = p /\ conns[id].result = "True"

\* (variant of BeginPass: negotiate does not look at is_complete_set first)
BeginPass_no_complete_check(p) ==
    /\ sock[p] = "listening"
    /\ ~negotiating[p]
    /\ IF duplicates(numbers[p]) = {} \/ missing(numbers[p]) = {}
       THEN /\ negotiate_result' = [negotiate_result EXCEPT ![p] = "False"]
            /\ UNCHANGED <<negotiating, pass_start>>
       ELSE /\ negotiating' = [negotiating EXCEPT ![p] = TRUE]
            /\ negotiate_result' = [negotiate_result EXCEPT ![p] = "none"]
            /\ pass_start' = [pass_start EXCEPT ![p] = Len(conns)]
    /\ UNCHANGED <<numbers, sock, backlog, conns, att, serverVars, turnVars>>
    /\ UNCHANGED extVars

\* negotiate_if_needed / TradeManager.negotiate is called in the peer's turn;
\* it returns True at once when the collection is complete and False at once
\* when there is nothing to offer or nothing to ask for
BeginPass(p) ==
    /\ sock[p] = "listening"
    /\ ~negotiating[p]
    /\ IF is_complete_set(numbers[p])
       THEN /\ negotiate_result' = [negotiate_result EXCEPT ![p] = "True"]
            /\ UNCHANGED <<negotiating, pass_start>>
       ELSE IF duplicates(numbers[p]) = {} \/ missing(numbers[p]) = {}
       THEN /\ negotiate_result' = [negotiate_result EXCEPT ![p] = "False"]
            /\ UNCHANGED <<negotiating, pass_start>>
       ELSE /\ negotiating' = [negotiating EXCEPT ![p] = TRUE]
            /\ negotiate_result' = [negotiate_result EXCEPT ![p] = "none"]
            /\ pass_start' = [pass_start EXCEPT ![p] = Len(conns)]
    /\ UNCHANGED <<numbers, sock, backlog, conns, att, serverVars, turnVars>>
    /\ UNCHANGED extVars

\* negotiate returns: the collection is complete (True), or the peers are
\* exhausted (True when some negotiate_with_peer made a trade)
EndPass(p) ==
    /\ negotiating[p]
    /\ att[p] = 0
    /\ negotiating' = [negotiating EXCEPT ![p] = FALSE]
    /\ negotiate_result' =
           [negotiate_result EXCEPT ![p] =
               IF is_complete_set(numbers[p]) \/ successful(p)
               THEN "True" ELSE "False"]
    /\ UNCHANGED <<numbers, sock, backlog, conns, att, pass_start, serverVars,
                   turnVars>>
    /\ UNCHANGED extVars

\* the wants and offers negotiate_with_peer tries: the 3 lowest missing
\* values, and any duplicate (the first 2 of a shuffled list)
missing_prioritized(nums) ==
    {w \in missing(nums) : Cardinality({u \in missing(nums) : u < w}) < 3}

\* (variant of AttemptTradeUpTo: the pass goes on asking after the
\* collection is complete)
AttemptTradeUpTo_keeps_going(p, q, offer, want, limit) ==
    /\ negotiating[p]
    /\ att[p] = 0
    /\ q # p
    /\ Len(conns) < limit
    /\ numbers[p][offer] > 0
    /\ want # offer
    /\ LET id == Len(conns) + 1
           payload == [data |-> "json",
                       request |-> TradeRequest(p, Num(offer), Num(want))]
       IN  IF sock[q] = "listening"
           THEN /\ conns' = Append(conns, NewConn(p, q, payload, TRUE))
                /\ backlog' = [backlog EXCEPT ![q] = Append(@, id)]
                /\ att' = [att EXCEPT ![p] = id]
           ELSE /\ conns' = Append(conns, NewConn(p, q, payload, FALSE))
                /\ UNCHANGED <<backlog, att>>
    /\ UNCHANGED <<numbers, sock, negotiating, passVars, serverVars, turnVars>>
    /\ UNCHANGED extVars

\* TradeManager.attempt_trade, up to the blocking readline: connect and send;
\* limit is the number of connections a behaviour may open
AttemptTradeUpTo(p, q, offer, want, limit) ==
    /\ negotiating[p]
    /\ att[p] = 0
    /\ q # p
    /\ Len(conns) < limit
    /\ ~is_complete_set(numbers[p])
    /\ offer \in duplicates(numbers[p])
    /\ want \in missing_prioritized(numbers[p])
    /\ LET id == Len(conns) + 1
           payload == [data |-> "json",
                       request |-> TradeRequest(p, Num(offer), Num(want))]
       IN  IF sock[q] = "listening"
           THEN /\ conns' = Append(conns, NewConn(p, q, payload, TRUE))
                /\ backlog' = [backlog EXCEPT ![q] = Append(@, id)]
                /\ att' = [att EXCEPT ![p] = id]
           ELSE \* ConnectionRefusedError: return False
                /\ conns' = Append(conns, NewConn(p, q, payload, FALSE))
                /\ UNCHANGED <<backlog, att>>
    /\ UNCHANGED <<numbers, sock, negotiating, passVars, serverVars, turnVars>>
    /\ UNCHANGED extVars

AttemptTrade(p, q, offer, want) ==
    AttemptTradeUpTo(p, q, offer, want, MaxTrades)

\* PeerServer.process_once: what one call does to the server of q
process_once(q) ==
    IF sock[q] # "listening" \/ backlog[q] = <<>>
    THEN /\ processed' = [processed EXCEPT ![q] = 0]
         /\ blocked_for' = [blocked_for EXCEPT ![q] = 0]
         /\ UNCHANGED <<numbers, conns, backlog>>
    ELSE \E d \in {drain(numbers[q], conns, backlog[q], 0)} :
         LET timeouts == {k \in 1..d.connections_processed :
                             conns[backlog[q][k]].payload.data = "silent"}
         IN  /\ numbers' = [numbers EXCEPT ![q] = d.numbers]
             /\ conns' = d.conns
             /\ backlog' = [backlog EXCEPT ![q] = d.backlog]
             /\ processed' =
                    [processed EXCEPT ![q] = d.connections_processed]
             /\ blocked_for' =
                    [blocked_for EXCEPT
                        ![q] = read_timeout * Cardinality(timeouts)]

\* process_once is called from the wait loops of the run loop (never from
\* inside negotiate); here with connections pending
ProcessOnce(q) ==
    /\ sock[q] = "listening"
    /\ ~negotiating[q]
    /\ backlog[q] # <<>>
    /\ process_once(q)
    /\ UNCHANGED <<sock, att, negotiating, passVars, turnVars>>
    /\ UNCHANGED extVars

\* process_once when the server was never started ("if not self.sock:
\* return") or nothing is pending (the first accept() raises BlockingIOError)
ProcessOnceIdle(q) ==
    /\ sock[q] # "listening" \/ backlog[q] = <<>>
    /\ ~negotiating[q]
    /\ process_once(q)
    /\ UNCHANGED <<sock, att, negotiating, passVars, turnVars>>
    /\ UNCHANGED extVars

\* a reply line that is a JSON object with "status": "accepted"
says_accepted(out) ==
    /\ out # <<>>
    /\ "status" \in DOMAIN out[1]
    /\ out[1].status = "accepted"

\* attempt_trade after readline returned: the reply line, or "" when the
\* responder closed without replying.  A line that is not a JSON object has
\* no "status" (json.loads or resp.get raises, caught by except Exception);
\* an accepted reply without "given" raises KeyError after remove(offer).
\* (variant of apply_reply: the card of an accepted reply is not appended)
apply_reply_given_dropped(nums, offer, out) ==
    IF out = <<>> THEN [numbers |-> nums, result |-> "False"]
    ELSE IF ~says_accepted(out) THEN [numbers |-> nums, result |-> "False"]
    ELSE IF nums[offer] = 0 THEN [numbers |-> nums, result |-> "False"]
    ELSE IF "given" \in DOMAIN out[1]
    THEN [numbers |-> remove(nums, offer), result |-> "True"]
    ELSE [numbers |-> remove(nums, offer), result |-> "False"]

apply_reply(nums, offer, out) ==
    IF out = <<>> THEN [numbers |-> nums, result |-> "False"]
    ELSE IF ~says_accepted(out) THEN [numbers |-> nums, result |-> "False"]
    ELSE IF nums[offer] = 0
    THEN \* list.remove raises ValueError, caught by except Exception
         [numbers |-> nums, result |-> "False"]
    ELSE IF "given" \in DOMAIN out[1]
    THEN [numbers |-> append(remove(nums, offer), out[1].given),
          result |-> "True"]
    ELSE [numbers |-> remove(nums, offer), result |-> "False"]

ReceiveReply(p) ==
    /\ att[p] # 0
    /\ conns[att[p]].server = "handled"
    /\ LET id == att[p]
           r == apply_reply(numbers[p], conns[id].payload.request.offer.val,
                            conns[id].out)
       IN  /\ numbers' = [numbers EXCEPT ![p] = r.numbers]
           /\ conns' = [conns EXCEPT ![id].client = "closed",
                                     ![id].result = r.result,
                                     ![id].applied_by_initiator =
                                         @ + (IF r.result = "True" THEN 1 ELSE 0)]
    /\ att' = [att EXCEPT ![p] = 0]
    /\ UNCHANGED <<sock, backlog, negotiating, passVars, serverVars, turnVars>>
    /\ UNCHANGED extVars

\* attempt_trade: socket.timeout (or a reset) while blocked in readline; the
\* request stays in the responder's listen queue, a reply under way is lost
Timeout(p) ==
    /\ att[p] # 0
    /\ conns' = [conns EXCEPT ![att[p]].client = "closed",
                              ![att[p]].result = "False"]
    /\ att' = [att EXCEPT ![p] = 0]
    /\ UNCHANGED <<numbers, sock, backlog, negotiating, passVars, serverVars,
                   turnVars>>
    /\ UNCHANGED extVars

Next ==
    \/ \E p \in Peers : Start(p)
    \/ \E p \in Peers : BeginPass(p)
    \/ \E p \in Peers : EndPass(p)
    \/ \E p \in Peers, q \in Peers, offer \in Values, want \in Values :
           AttemptTrade(p, q, offer, want)
    \/ \E q \in Peers : ProcessOnce(q)
    \/ \E p \in Peers : ReceiveReply(p)
    \/ \E p \in Peers : Timeout(p)

Spec == Init /\ [][Next]_vars

\* --------------------------------- SpecPass: one trade, nothing fails
\* Every peer has started its PeerServer and a request that is sent is
\* answered before its 2 s read timeout.  The peers start from any allocation
\* and the run is followed up to its first request.
InitPass ==
    /\ numbers \in RankedAllocations
    /\ TurnIdle
    /\ sock = [p \in Peers |-> "listening"]
    /\ backlog = [p \in Peers |-> <<>>]
    /\ conns = <<>>
    /\ att = [p \in Peers |-> 0]
    /\ negotiating = [p \in Peers |-> FALSE]
    /\ PassIdle
    /\ ServerIdle
    /\ ExtIdle

\* the first attempt_trade of the run
FirstAttempt(p, q, offer, want) ==
    AttemptTradeUpTo(p, q, offer, want, 1)

NextPass ==
    \/ \E p \in Peers : BeginPass(p)
    \/ \E p \in Peers : EndPass(p)
    \/ \E p \in Peers, q \in Peers, offer \in Values, want \in Values :
           FirstAttempt(p, q, offer, want)
    \/ \E q \in Peers : ProcessOnce(q)
    \/ \E p \in Peers : ReceiveReply(p)

SpecPass == InitPass /\ [][NextPass]_vars

\* ------------------------------------ SpecCohort: two peers of the group
\* Peers 1 and 2 have started their PeerServers, the peers after them have
\* not.  The two run negotiate() passes, MaxTrades requests in all; a read
\* may time out, and then the responder may handle the request later or its
\* reply is lost.
Up == {p \in Peers : p <= 2}

\* the two are told apart by their names only: the allocations up to
\* swapping them
CohortAllocations == {a \in Allocations : Rank(a[1]) >= Rank(a[2])}

InitCohort ==
    /\ numbers \in CohortAllocations
    /\ TurnIdle
    /\ sock = [p \in Peers |-> IF p \in Up THEN "listening" ELSE "None"]
    /\ backlog = [p \in Peers |-> <<>>]
    /\ conns = <<>>
    /\ att = [p \in Peers |-> 0]
    /\ negotiating = [p \in Peers |-> FALSE]
    /\ PassIdle
    /\ ServerIdle
    /\ ExtIdle

NextCohort ==
    \/ \E p \in Up : BeginPass(p)
    \/ \E p \in Up : EndPass(p)
    \/ \E p \in Up, q \in Up, offer \in Values, want \in Values :
           AttemptTrade(p, q, offer, want)
    \/ \E q \in Up : ProcessOnce(q)
    \/ \E p \in Up : ReceiveReply(p)
    \/ \E p \in Up : Timeout(p)

SpecCohort == InitCohort /\ [][NextCohort]_vars

\* ------------------------------------------------ SpecOpen: server alone
\* The PeerServer of peer 1 listens; any client may connect and send anything.
\* Peer 1 starts with any inventory the allocator can hand out; the other
\* peers take no part, their inventories are never read.
OpenAllocations ==
    {[p \in Peers |-> IF p = 1 THEN inv ELSE [v \in Values |-> 1]] :
         inv \in {f \in Inventories : \A v \in Values : f[v] <= NumPeers}}

JsonNumbers == {None, Text} \cup {Num(v) : v \in -1..NumValues}

Payloads ==
    {[data |-> "json", request |-> TradeRequest(0, o, w)] :
         o \in JsonNumbers, w \in JsonNumbers}
    \cup {[data |-> "json", request |-> [action |-> "join"]],
          [data |-> "notobject"], [data |-> "notutf8"],
          [data |-> "garbage"], [data |-> "empty"], [data |-> "silent"]}
    \cup {[data |-> "json", request |-> TradeRequest(0, Num(o), Num(w)),
           gone |-> TRUE] : o \in Values, w \in Values}
    \cup {[data |-> "garbage", gone |-> TRUE]}

InitOpen ==
    /\ numbers \in OpenAllocations
    /\ TurnIdle
    /\ sock = [p \in Peers |-> IF p = 1 THEN "listening" ELSE "None"]
    /\ backlog = [p \in Peers |-> <<>>]
    /\ conns = <<>>
    /\ att = [p \in Peers |-> 0]
    /\ negotiating = [p \in Peers |-> FALSE]
    /\ PassIdle
    /\ ServerIdle
    /\ ExtIdle

\* a client (from = 0) connects to q and sends payload
ClientConnect(q, payload) ==
    /\ sock[q] = "listening"
    /\ Len(conns) < MaxTrades
    /\ conns' = Append(conns, NewConn(0, q, payload, TRUE))
    /\ backlog' = [backlog EXCEPT ![q] = Append(@, Len(conns) + 1)]
    /\ UNCHANGED <<numbers, sock, att, negotiating, passVars, serverVars,
                   turnVars>>
    /\ UNCHANGED extVars

NextOpen ==
    \/ \E q \in Peers, payload \in Payloads : ClientConnect(q, payload)
    \/ \E q \in Peers : ProcessOnce(q)

SpecOpen == InitOpen /\ [][NextOpen]_vars

\* --------------------------------------------- SpecReply: initiator alone
\* Peer 1 runs negotiate() passes against responders that need not be this
\* program: peer 2 may listen and answer any line or nothing, the peers
\* after it do not listen.  The lines: accepted with the card asked for,
\* accepted without "given", rejected, and a line that is no JSON object.
ReplyLines(request) ==
    {Accepted(request.want.val), [status |-> "accepted"], Rejected("x"),
     [malformed |-> TRUE]}

InitReply ==
    /\ numbers \in OpenAllocations
    /\ TurnIdle
    /\ sock \in {f \in [Peers -> {"listening", "None"}] :
                    f[1] = "listening" /\ \A q \in Peers : q > 2 => f[q] = "None"}
    /\ backlog = [p \in Peers |-> <<>>]
    /\ conns = <<>>
    /\ att = [p \in Peers |-> 0]
    /\ negotiating = [p \in Peers |-> FALSE]
    /\ PassIdle
    /\ ServerIdle
    /\ ExtIdle

\* one attempt_trade of the pass of peer 1
PassAttempt(q, offer, want) ==
    AttemptTradeUpTo(1, q, offer, want, MaxRequests)

\* the responder of connection id writes lines (none: it just closes)
PeerReplies(id, lines) ==
    /\ id \in 1..Len(conns)
    /\ conns[id].server = "queued"
    /\ conns[id].client = "waiting"
    /\ lines \in {<<>>} \cup {<<l>> : l \in ReplyLines(conns[id].payload.request)}
    /\ conns' = [conns EXCEPT ![id].server = "handled", ![id].out = lines]
    /\ backlog' = [backlog EXCEPT ![conns[id].to] = Tail(@)]
    /\ UNCHANGED <<numbers, sock, att, negotiating, passVars, serverVars,
                   turnVars>>
    /\ UNCHANGED extVars

\* the read of peer 1 times out on a responder that stays silent
PassTimeout ==
    /\ att[1] # 0
    /\ conns[att[1]].server = "queued"
    /\ Timeout(1)

NextReply ==
    \/ BeginPass(1)
    \/ EndPass(1)
    \/ \E q \in Peers, offer \in Values, want \in Values :
           PassAttempt(q, offer, want)
    \/ \E id \in 1..MaxRequests,
          lines \in {<<>>} \cup {<<l>> : l \in {Rejected("x"), [malformed |-> TRUE],
                                                [status |-> "accepted"]}
                                           \cup {Accepted(w) : w \in Values}} :
           PeerReplies(id, lines)
    \/ ReceiveReply(1)
    \/ PassTimeout

SpecReply == InitReply /\ [][NextReply]_vars

\* ------------------------------------ SpecBatch: trades queued together
\* Peer 1 listens with any inventory the allocator can hand out; up to
\* MaxRequests clients connect and send a trade request for any two values
\* (or a line that is no JSON), and process_once() runs at any time, so it
\* finds one or several of them queued.
BatchPayloads ==
    {[data |-> "json", request |-> TradeRequest(0, Num(o), Num(w))] :
         o \in Values, w \in Values}
    \cup {[data |-> "garbage"]}

BatchConnect(payload) ==
    /\ sock[1] = "listening"
    /\ Len(conns) < MaxRequests
    /\ Len(backlog[1]) <= listen_backlog
    /\ conns' = Append(conns, NewConn(0, 1, payload, TRUE))
    /\ backlog' = [backlog EXCEPT ![1] = Append(@, Len(conns) + 1)]
    /\ UNCHANGED <<numbers, sock, att, negotiating, passVars, serverVars,
                   turnVars>>
    /\ UNCHANGED extVars

NextBatch ==
    \/ \E payload \in BatchPayloads : BatchConnect(payload)
    \/ ProcessOnce(1)

SpecBatch == InitOpen /\ [][NextBatch]_vars

\* ------------------------------------- SpecPeer: one peer, both its roles
\* Peer 1 with any inventory the allocator can hand out.  Its PeerServer
\* handles the requests of any clients between its passes, and its
\* negotiate() passes go to responders that answer any line or nothing.
PeerConnect(payload) ==
    ClientConnect(1, payload)

\* one attempt_trade of a pass of peer 1; the run has MaxTrades connections
PeerAttempt(q, offer, want) ==
    AttemptTradeUpTo(1, q, offer, want, MaxTrades)

\* a responder other than peer 1's own server writes lines
PeerAnswers(id, lines) ==
    /\ id \in 1..Len(conns)
    /\ conns[id].to # 1
    /\ PeerReplies(id, lines)

NextPeer ==
    \/ \E payload \in BatchPayloads : PeerConnect(payload)
    \/ ProcessOnce(1)
    \/ BeginPass(1)
    \/ EndPass(1)
    \/ \E q \in Peers, offer \in Values, want \in Values :
           PeerAttempt(q, offer, want)
    \/ \E id \in 1..MaxTrades,
          lines \in {<<>>} \cup {<<l>> : l \in {Rejected("x"), [malformed |-> TRUE],
                                                [status |-> "accepted"]}
                                           \cup {Accepted(w) : w \in Values}} :
           PeerAnswers(id, lines)
    \/ ReceiveReply(1)
    \/ PassTimeout

SpecPeer == InitReply /\ [][NextPeer]_vars

\* ------------------------------------------- SpecBurst: a burst of clients
\* Peer 1 starts its PeerServer and calls process_once() at any time; up to
\* BurstSize clients connect as fast as the listen queue takes them (the
\* kernel completes listen_backlog + 1 connections and holds back the rest).
BurstPayloads ==
    {[data |-> "json", request |-> TradeRequest(0, Num(0), Num(1))],
     [data |-> "garbage"], [data |-> "silent"]}

InitBurst ==
    /\ numbers = [p \in Peers |-> [v \in Values |-> 1]]
    /\ TurnIdle
    /\ sock = [p \in Peers |-> "None"]
    /\ backlog = [p \in Peers |-> <<>>]
    /\ conns = <<>>
    /\ att = [p \in Peers |-> 0]
    /\ negotiating = [p \in Peers |-> FALSE]
    /\ PassIdle
    /\ ServerIdle
    /\ ExtIdle

BurstConnect(payload) ==
    /\ sock[1] = "listening"
    /\ Len(conns) < BurstSize
    /\ Len(backlog[1]) <= listen_backlog
    /\ conns' = Append(conns, NewConn(0, 1, payload, TRUE))
    /\ backlog' = [backlog EXCEPT ![1] = Append(@, Len(conns) + 1)]
    /\ UNCHANGED <<numbers, sock, att, negotiating, passVars, serverVars,
                   turnVars>>
    /\ UNCHANGED extVars

NextBurst ==
    \/ Start(1)
    \/ \E payload \in BurstPayloads : BurstConnect(payload)
    \/ ProcessOnce(1)
    \/ ProcessOnceIdle(1)

SpecBurst == InitBurst /\ [][NextBurst]_vars

\* ------------------------------------------------------- TurnCoordinator
total_clients == NumPeers

turn_duration ==
    IF total_clients <= 3 THEN 100
    ELSE IF total_clients = 4 THEN 120
    ELSE IF total_clients = 5 THEN 150
    ELSE 180

cycle_duration == total_clients * turn_duration

\* (variant of get_current_turn: the "% total_clients" is forgotten)
get_current_turn_never_wraps(elapsed) ==
    (elapsed \div turn_duration) + 1

\* (variant of get_current_turn: the "+ 1" is forgotten)
get_current_turn_from_zero(elapsed) ==
    (elapsed \div turn_duration) % total_clients

\* system_start_time is set by the constructor, so the "return 1" branch of
\* an unset epoch is never taken once run() is entered
get_current_turn(elapsed) ==
    LET turn_cycles == elapsed \div turn_duration
    IN  (turn_cycles % total_clients) + 1

\* (variant of is_my_turn: the completed flag is not looked at)
is_my_turn_ignores_completed == get_current_turn(now) = my_turn

is_my_turn == get_current_turn(now) = my_turn /\ ~my_turn_completed

\* (variant of complete_my_turn: the flag is left as it is)
complete_my_turn_keeps_flag(completed) == completed

\* complete_my_turn: what my_turn_completed is afterwards; a call with the
\* flag already set returns at once
complete_my_turn(completed) == IF completed THEN completed ELSE TRUE

get_remaining_turn_time(elapsed) ==
    LET current_turn == get_current_turn(elapsed)
        current_cycle_start == (elapsed \div cycle_duration) * cycle_duration
        turn_start_in_cycle == (current_turn - 1) * turn_duration
        turn_start_absolute == current_cycle_start + turn_start_in_cycle
        turn_elapsed == elapsed - turn_start_absolute
        remaining == turn_duration - turn_elapsed
    IN  IF remaining > 0 THEN remaining ELSE 0

\* ------------------------------------------------------------ the clock
\* The clock is observed TicksPerSlot times per slot; it is kept modulo one
\* cycle, which is all get_current_turn and get_remaining_turn_time read.
Samples ==
    {(k * turn_duration) \div TicksPerSlot :
         k \in 0..(total_clients * TicksPerSlot - 1)}

NextSample(t) ==
    IF \E s \in Samples : s > t
    THEN CHOOSE s \in Samples : s > t /\ \A u \in Samples : u > t => s <= u
    ELSE 0

Elapse(t) ==
    IF NextSample(t) > t THEN NextSample(t) - t ELSE cycle_duration - t

InitTurn ==
    /\ now = 0
    /\ my_turn \in Peers
    /\ my_turn_completed = FALSE
    /\ pc = "loop"
    /\ round_count = 0
    /\ collection_complete \in BOOLEAN
    /\ serving_for = -1
    /\ idle_left = 0
    /\ requests = 0
    /\ last_sent_turn = 0
    /\ away = FALSE
    /\ numbers = [p \in Peers |-> [v \in Values |-> 1]]
    /\ sock = [p \in Peers |-> "None"]
    /\ backlog = [p \in Peers |-> <<>>]
    /\ conns = <<>>
    /\ att = [p \in Peers |-> 0]
    /\ negotiating = [p \in Peers |-> FALSE]
    /\ PassIdle
    /\ ServerIdle
    /\ ExtIdle

\* time passes
Tick ==
    /\ now' = NextSample(now)
    /\ serving_for' =
           IF serving_for >= 0 /\ serving_for <= max_serve_time
           THEN serving_for + Elapse(now) ELSE serving_for
    /\ idle_left' =
           IF idle_left > Elapse(now) THEN idle_left - Elapse(now) ELSE 0
    /\ away' = (away \/ (my_turn_completed
                            /\ get_current_turn(NextSample(now)) # my_turn))
    /\ UNCHANGED <<my_turn, my_turn_completed, pc, round_count,
                   collection_complete, requests, last_sent_turn, tradeVars>>
    /\ UNCHANGED extVars

\* ------------------------------------------------- ClientController.run
\* while round_count < max_rounds: round_count += 1; should_terminate()
LoopTop ==
    /\ pc = "loop"
    /\ IF round_count < max_rounds
       THEN /\ round_count' = round_count + 1
            /\ IF collection_complete
               THEN LET elapsed == IF serving_for < 0 THEN 0 ELSE serving_for
                    IN  /\ serving_for' = elapsed
                        /\ pc' = IF elapsed > max_serve_time
                                 THEN "done" ELSE "wait"
               ELSE /\ pc' = "wait"
                    /\ UNCHANGED serving_for
       ELSE /\ pc' = "done"
            /\ UNCHANGED <<round_count, serving_for>>
    /\ UNCHANGED <<now, my_turn, my_turn_completed, collection_complete,
                   idle_left, requests, last_sent_turn, away, tradeVars>>
    /\ UNCHANGED extVars

\* wait_for_my_turn: the loop test, and the statement after the loop
WaitCheck ==
    /\ pc = "wait"
    /\ IF is_my_turn
       THEN /\ my_turn_completed' = FALSE
            /\ pc' = "start"
       ELSE /\ pc' = "poll"
            /\ UNCHANGED my_turn_completed
    /\ UNCHANGED <<now, my_turn, round_count, collection_complete,
                   serving_for, idle_left, requests, last_sent_turn, away,
                   tradeVars>>
    /\ UNCHANGED extVars

\* wait_for_my_turn: ten times process_once() and sleep(0.1); an inbound
\* trade may complete the collection
Poll(completes) ==
    /\ pc = "poll"
    /\ pc' = "wait"
    /\ collection_complete' = (collection_complete \/ completes)
    /\ UNCHANGED <<now, my_turn, my_turn_completed, round_count, serving_for,
                   idle_left, requests, last_sent_turn, away, tradeVars>>
    /\ UNCHANGED extVars

\* (variant of StartMyTurn: run() negotiates whatever start_my_turn returns)
StartMyTurn_no_recheck ==
    /\ pc = "start"
    /\ pc' = "negotiate"
    /\ requests' = 0
    /\ last_sent_turn' = 0
    /\ UNCHANGED <<now, my_turn, my_turn_completed, round_count,
                   collection_complete, serving_for, idle_left, away,
                   tradeVars>>
    /\ UNCHANGED extVars

\* start_my_turn
StartMyTurn ==
    /\ pc = "start"
    /\ pc' = IF is_my_turn /\ ~my_turn_completed THEN "negotiate" ELSE "loop"
    /\ requests' = 0
    /\ last_sent_turn' = 0
    /\ UNCHANGED <<now, my_turn, my_turn_completed, round_count,
                   collection_complete, serving_for, idle_left, away,
                   tradeVars>>
    /\ UNCHANGED extVars

\* negotiate: attempt_trade connects and sends one request
NegotiateSend ==
    /\ pc = "negotiate"
    /\ ~collection_complete
    /\ requests < MaxRequests
    /\ requests' = requests + 1
    /\ last_sent_turn' = get_current_turn(now)
    /\ pc' = "awaiting"
    /\ UNCHANGED <<now, my_turn, my_turn_completed, round_count,
                   collection_complete, serving_for, idle_left, away,
                   tradeVars>>
    /\ UNCHANGED extVars

\* attempt_trade: the reply arrives; an accepted trade may complete the
\* collection
ReplyArrives(completes) ==
    /\ pc = "awaiting"
    /\ pc' = "negotiate"
    /\ collection_complete' = (collection_complete \/ completes)
    /\ UNCHANGED <<now, my_turn, my_turn_completed, round_count, serving_for,
                   idle_left, requests, last_sent_turn, away, tradeVars>>
    /\ UNCHANGED extVars

\* attempt_trade: socket.timeout after connection_timeout, or refused
ReadTimeout ==
    /\ pc = "awaiting"
    /\ pc' = "negotiate"
    /\ UNCHANGED <<now, my_turn, my_turn_completed, round_count,
                   collection_complete, serving_for, idle_left, requests,
                   last_sent_turn, away, tradeVars>>
    /\ UNCHANGED extVars

\* negotiate_if_needed returns (at once when the collection is complete or
\* nothing can be offered or asked)
NegotiateReturn ==
    /\ pc = "negotiate"
    /\ pc' = "complete_turn"
    /\ UNCHANGED <<now, my_turn, my_turn_completed, round_count,
                   collection_complete, serving_for, idle_left, requests,
                   last_sent_turn, away, tradeVars>>
    /\ UNCHANGED extVars

\* complete_my_turn, then remaining_time = get_remaining_turn_time()
CompleteMyTurn ==
    /\ pc = "complete_turn"
    /\ my_turn_completed' = complete_my_turn(my_turn_completed)
    /\ away' = (get_current_turn(now) # my_turn)
    /\ LET remaining_time == get_remaining_turn_time(now)
       IN  IF remaining_time > 10
           THEN /\ idle_left' = remaining_time
                /\ pc' = "idle"
           ELSE /\ idle_left' = 0
                /\ pc' = "loop"
    /\ requests' = 0
    /\ last_sent_turn' = 0
    /\ UNCHANGED <<now, my_turn, round_count, collection_complete,
                   serving_for, tradeVars>>
    /\ UNCHANGED extVars

\* while time.time() < end_time: process_once(); sleep(0.2)
IdleServe ==
    /\ pc = "idle"
    /\ idle_left > 0
    /\ ~collection_complete
    /\ collection_complete' = TRUE
    /\ UNCHANGED <<now, my_turn, my_turn_completed, pc, round_count,
                   serving_for, idle_left, requests, last_sent_turn, away,
                   tradeVars>>
    /\ UNCHANGED extVars

IdleEnd ==
    /\ pc = "idle"
    /\ idle_left = 0
    /\ pc' = "loop"
    /\ UNCHANGED <<now, my_turn, my_turn_completed, round_count,
                   collection_complete, serving_for, idle_left, requests,
                   last_sent_turn, away, tradeVars>>
    /\ UNCHANGED extVars

RunStep ==
    \/ LoopTop
    \/ WaitCheck
    \/ \E completes \in BOOLEAN : Poll(completes)
    \/ StartMyTurn
    \/ NegotiateSend
    \/ \E completes \in BOOLEAN : ReplyArrives(completes)
    \/ ReadTimeout
    \/ NegotiateReturn
    \/ CompleteMyTurn
    \/ IdleServe
    \/ IdleEnd

NextTurn == Tick \/ RunStep

SpecTurn == InitTurn /\ [][NextTurn]_vars

\* The process keeps running and the clock keeps advancing; the wait loop
\* polls every second, so it does look at the clock inside each slot.
FairSpecTurn ==
    /\ InitTurn
    /\ [][NextTurn]_vars
    /\ WF_vars(Tick)
    /\ WF_vars(RunStep)
    /\ SF_vars(WaitCheck /\ pc' = "start")

\* A run without failures: besides the above, one second of polling ends
\* well inside a slot, an incomplete peer (which
\* then holds a duplicate and misses a value) sends requests in its turns,
\* and one that keeps sending is eventually sent the card that completes it.
\* Inbound trades get no such condition: they come only from the passes of
\* the other peers, and nothing obliges those to go on.
FairSpecTrade ==
    /\ FairSpecTurn
    /\ SF_vars((\E completes \in BOOLEAN : Poll(completes))
                   /\ get_current_turn(now) = my_turn)
    /\ SF_vars(NegotiateSend)
    /\ SF_vars(ReplyArrives(TRUE))

\* --------------------------------- SpecServe: the run loop and its server
\* The run loop of one peer together with its PeerServer.  What the loop
\* reads off the clock (is the active turn mine, is the grace window over,
\* is there time left in the slot) can come out either way at every test;
\* the clock variables themselves stay put.  A complete peer holds one card
\* of each value; an incomplete one holds value 0 twice and misses value 1,
\* and the requests of its own turn are all turned down.  Clients send
\* well-formed trade requests at any time.
clockVars == <<now, serving_for, idle_left, requests, last_sent_turn, away>>

ServePayloads ==
    {[data |-> "json", request |-> TradeRequest(0, Num(1), Num(0))]}

InitServe ==
    /\ now = 0
    /\ my_turn \in Peers
    /\ my_turn_completed = FALSE
    /\ pc = "loop"
    /\ round_count = 0
    /\ collection_complete \in BOOLEAN
    /\ serving_for = -1
    /\ idle_left = 0
    /\ requests = 0
    /\ last_sent_turn = 0
    /\ away = FALSE
    /\ numbers = [p \in Peers |->
                     IF p = my_turn /\ ~collection_complete
                     THEN [v \in Values |->
                              IF v = 0 THEN 2 ELSE IF v = 1 THEN 0 ELSE 1]
                     ELSE [v \in Values |-> 1]]
    /\ sock = [p \in Peers |-> IF p = my_turn THEN "listening" ELSE "None"]
    /\ backlog = [p \in Peers |-> <<>>]
    /\ conns = <<>>
    /\ att = [p \in Peers |-> 0]
    /\ negotiating = [p \in Peers |-> FALSE]
    /\ PassIdle
    /\ ServerIdle
    /\ ExtIdle

\* a client connects and sends its request
ServeConnect(payload) ==
    /\ sock[my_turn] = "listening"
    /\ Len(conns) < MaxTrades
    /\ Len(backlog[my_turn]) <= listen_backlog
    /\ conns' = Append(conns, NewConn(0, my_turn, payload, TRUE))
    /\ backlog' = [backlog EXCEPT ![my_turn] = Append(@, Len(conns) + 1)]
    /\ UNCHANGED <<numbers, sock, att, negotiating, passVars, serverVars,
                   turnVars>>
    /\ UNCHANGED extVars

\* while round_count < max_rounds: round_count += 1; if should_terminate():
\* break.  window_over: the collection has been complete for more than
\* max_serve_time.
RoundTop(window_over) ==
    /\ pc = "loop"
    /\ IF round_count < max_rounds
       THEN /\ round_count' = round_count + 1
            /\ pc' = IF collection_complete /\ window_over
                     THEN "done" ELSE "wait"
       ELSE /\ pc' = "done"
            /\ UNCHANGED round_count
    /\ UNCHANGED <<my_turn, my_turn_completed, collection_complete,
                   clockVars, tradeVars>>
    /\ UNCHANGED extVars

\* wait_for_my_turn: the loop test, and the statement after the loop.
\* in_slot: get_current_turn() == my_turn.
WaitTest(in_slot) ==
    /\ pc = "wait"
    /\ IF in_slot /\ ~my_turn_completed
       THEN /\ my_turn_completed' = FALSE
            /\ pc' = "start"
       ELSE /\ pc' = "poll"
            /\ UNCHANGED my_turn_completed
    /\ UNCHANGED <<my_turn, round_count, collection_complete, clockVars,
                   tradeVars>>
    /\ UNCHANGED extVars

\* (variant of PollServe: wait_for_my_turn called without the server, the
\* "else: time.sleep(1)" branch)
PollSleep(last) ==
    /\ pc = "poll"
    /\ pc' = IF last THEN "wait" ELSE "poll"
    /\ UNCHANGED <<my_turn, my_turn_completed, round_count,
                   collection_complete, clockVars, tradeVars>>
    /\ UNCHANGED extVars

\* wait_for_my_turn: one of the ten "process_once(); sleep(0.1)"; after the
\* last of them the loop test is made again
PollServe(last) ==
    /\ pc = "poll"
    /\ pc' = IF last THEN "wait" ELSE "poll"
    /\ process_once(my_turn)
    /\ collection_complete' = is_complete_set(numbers'[my_turn])
    /\ UNCHANGED <<my_turn, my_turn_completed, round_count, clockVars, sock,
                   att, negotiating, passVars>>
    /\ UNCHANGED extVars

\* start_my_turn
TurnStart(in_slot) ==
    /\ pc = "start"
    /\ pc' = IF in_slot /\ ~my_turn_completed THEN "negotiate" ELSE "loop"
    /\ UNCHANGED <<my_turn, my_turn_completed, round_count,
                   collection_complete, clockVars, tradeVars>>
    /\ UNCHANGED extVars

\* negotiate_if_needed, complete_my_turn and get_remaining_turn_time: the
\* server is not looked at.  time_left: remaining_time > 1.
TakeTurn(time_left) ==
    /\ pc = "negotiate"
    /\ my_turn_completed' = TRUE
    /\ pc' = IF time_left THEN "idle" ELSE "loop"
    /\ UNCHANGED <<my_turn, round_count, collection_complete, clockVars,
                   tradeVars>>
    /\ UNCHANGED extVars

\* the idle loop of run(): while time.time() < end_time: process_once();
\* sleep(0.2)
IdleProcess ==
    /\ pc = "idle"
    /\ process_once(my_turn)
    /\ collection_complete' = is_complete_set(numbers'[my_turn])
    /\ UNCHANGED <<my_turn, my_turn_completed, pc, round_count, clockVars,
                   sock, att, negotiating, passVars>>
    /\ UNCHANGED extVars

\* the idle loop ends: time.time() >= end_time
IdleOver ==
    /\ pc = "idle"
    /\ pc' = "loop"
    /\ UNCHANGED <<my_turn, my_turn_completed, round_count,
                   collection_complete, clockVars, tradeVars>>
    /\ UNCHANGED extVars

\* run() has left its loop: "finally: ... self.peer_server.close()".  The
\* connections still in the listen queue are reset unread.
Close ==
    /\ pc = "done"
    /\ sock[my_turn] = "listening"
    /\ sock' = [sock EXCEPT ![my_turn] = "None"]
    /\ backlog' = [backlog EXCEPT ![my_turn] = <<>>]
    /\ conns' = [id \in DOMAIN conns |->
                    IF conns[id].server = "queued"
                    THEN [conns[id] EXCEPT !.server = "dropped"]
                    ELSE conns[id]]
    /\ UNCHANGED <<numbers, att, negotiating, passVars, serverVars, turnVars>>
    /\ UNCHANGED extVars

RunStepServe ==
    \/ \E window_over \in BOOLEAN : RoundTop(window_over)
    \/ \E in_slot \in BOOLEAN : WaitTest(in_slot)
    \/ \E last \in BOOLEAN : PollServe(last)
    \/ \E in_slot \in BOOLEAN : TurnStart(in_slot)
    \/ \E time_left \in BOOLEAN : TakeTurn(time_left)
    \/ IdleProcess
    \/ IdleOver
    \/ Close

NextServe ==
    \/ RunStepServe
    \/ \E payload \in ServePayloads : ServeConnect(payload)

SpecServe == InitServe /\ [][NextServe]_vars

\* the process keeps running
FairSpecServe ==
    /\ SpecServe
    /\ WF_vars(RunStepServe)

\* -------------------------------------------------- the index (SpecIndex)
\* the trading peers have not been started
PeersIdle ==
    /\ numbers = [p \in Peers |-> [v \in Values |-> 1]]
    /\ TurnIdle
    /\ sock = [p \in Peers |-> "None"]
    /\ backlog = [p \in Peers |-> <<>>]
    /\ conns = <<>>
    /\ att = [p \in Peers |-> 0]
    /\ negotiating = [p \in Peers |-> FALSE]
    /\ PassIdle
    /\ ServerIdle

\* IndexController.start up to the accept loop: self._running = True
InitIndex ==
    /\ PeersIdle
    /\ pool = NumberPool
    /\ clients = <<>>
    /\ connections = <<>>
    /\ rejected = "none"
    /\ running = TRUE
    /\ ListIdle
    /\ StoreIdle
    /\ RoundIdle
    /\ CallsIdle

\* one round of the accept loop of IndexController.start: accept, then
\* _handle_client, then _send_final_state and break when
\* len(self.connections) >= TOTAL_CLIENTS
AcceptClient(payload) ==
    /\ running
    /\ \E chosen \in IF is_join(payload)
                     THEN assign_list(pool, list_length)
                     ELSE {[v \in PoolValues |-> 0]} :
           LET h == handle_client(pool, clients, payload, chosen)
           IN  /\ pool' = h.pool
               /\ clients' = h.clients
               /\ IF h.kept
                  THEN LET cns == Append(connections, h.conn)
                       IN  /\ rejected' = rejected
                           /\ IF Len(cns) >= TOTAL_CLIENTS
                              THEN /\ connections' =
                                          send_final_state(cns, h.clients)
                                   /\ running' = FALSE
                              ELSE /\ connections' = cns
                                   /\ running' = TRUE
                  ELSE /\ rejected' = h.reason
                       /\ UNCHANGED <<connections, running>>
    /\ UNCHANGED <<tradeVars, turnVars, listVars, storeVars, roundVars, callVars>>

\* IndexController.start: except KeyboardInterrupt; the process ends and its
\* connections with it
KeyboardInterrupt ==
    /\ running
    /\ running' = FALSE
    /\ connections' = [id \in DOMAIN connections |->
                          [connections[id] EXCEPT !.open = FALSE]]
    /\ UNCHANGED <<pool, clients, rejected>>
    /\ UNCHANGED <<tradeVars, turnVars, listVars, storeVars, roundVars, callVars>>

\* IndexClient.join returns to the client of connection id
JoinReturns(id) ==
    /\ id \in DOMAIN connections
    /\ connections[id].got = Pending
    /\ join(connections[id].lines, connections[id].open) # Pending
    /\ connections' = [connections EXCEPT
           ![id].got = join(connections[id].lines, connections[id].open)]
    /\ UNCHANGED <<pool, clients, rejected, running>>
    /\ UNCHANGED <<tradeVars, turnVars, listVars, storeVars, roundVars, callVars>>

NextIndex ==
    \/ \E payload \in IndexPayloads(clients) : AcceptClient(payload)
    \/ KeyboardInterrupt
    \/ \E id \in 1..TOTAL_CLIENTS : JoinReturns(id)

SpecIndex == InitIndex /\ [][NextIndex]_vars

\* ------------------------------------------------ one NumberList (SpecList)
\* what a list may hold: the card values, and a number on either side of them
\* ------------------------ SpecJoins: two join handlers at the same time
\* Two threads each call registry.add_client(name, ip, port) and then
\* pool.assign_list(list_length) on the same ClientRegistry and NumberPool,
\* statement by statement.  The NumberPool is the one of tallerGrande1
\* (assign_list runs `with self._lock`) or the one of tallerGrande1 (Copy)
\* (no lock).
InitJoins ==
    /\ PeersIdle
    /\ pool = NumberPool
    /\ clients = <<>>
    /\ connections = <<>>
    /\ rejected = "none"
    /\ running = TRUE
    /\ ListIdle
    /\ StoreIdle
    /\ RoundIdle
    /\ threads \in {[t \in Handlers |-> [NoCall EXCEPT !.pc = "add_client",
                                                      !.name = n[t]]] :
                       n \in [Handlers -> Handlers]}
    /\ registry_lock = 0
    /\ pool_lock = 0
    /\ pool_has_lock \in BOOLEAN

\* add_client: `with self._lock:` is entered
AddClientLock(t) ==
    /\ threads[t].pc = "add_client"
    /\ registry_lock = 0
    /\ registry_lock' = t
    /\ threads' = [threads EXCEPT ![t].pc = "in_add_client"]
    /\ UNCHANGED <<pool, clients, pool_lock, pool_has_lock>>
    /\ UNCHANGED <<connections, rejected, running>>
    /\ UNCHANGED <<tradeVars, turnVars, listVars, storeVars, roundVars>>

\* add_client: the body, and the lock released on the way out
AddClientBody(t) ==
    /\ threads[t].pc = "in_add_client"
    /\ clients' = add_client(clients, threads[t].name)
    /\ registry_lock' = 0
    /\ threads' = [threads EXCEPT ![t].pc = "assign_list"]
    /\ UNCHANGED <<pool, pool_lock, pool_has_lock>>
    /\ UNCHANGED <<connections, rejected, running>>
    /\ UNCHANGED <<tradeVars, turnVars, listVars, storeVars, roundVars>>

\* (variant of AssignListBegin: the lock is not waited for)
AssignListBegin_without_lock(t) ==
    /\ threads[t].pc = "assign_list"
    /\ pool_lock' = IF pool_has_lock THEN t ELSE pool_lock
    /\ threads' = [threads EXCEPT
           ![t].pc = "picking",
           ![t].available = pool,
           ![t].left = Min(list_length, len(pool))]
    /\ UNCHANGED <<pool, clients, registry_lock, pool_has_lock>>
    /\ UNCHANGED <<connections, rejected, running>>
    /\ UNCHANGED <<tradeVars, turnVars, listVars, storeVars, roundVars>>

\* assign_list: the lock is taken where the class has one, and
\* `available` is built from the pool as it is now
AssignListBegin(t) ==
    /\ threads[t].pc = "assign_list"
    /\ pool_has_lock => pool_lock = 0
    /\ pool_lock' = IF pool_has_lock THEN t ELSE pool_lock
    /\ threads' = [threads EXCEPT
           ![t].pc = "picking",
           ![t].available = pool,
           ![t].left = Min(list_length, len(pool))]
    /\ UNCHANGED <<pool, clients, registry_lock, pool_has_lock>>
    /\ UNCHANGED <<connections, rejected, running>>
    /\ UNCHANGED <<tradeVars, turnVars, listVars, storeVars, roundVars>>

\* assign_list: one round of the for loop; pick is random.choice(available)
AssignListPick(t, pick) ==
    /\ threads[t].pc = "picking"
    /\ threads[t].left > 0
    /\ threads[t].available[pick] > 0
    /\ pool' = [pool EXCEPT ![pick] = @ - 1]
    /\ threads' = [threads EXCEPT
           ![t].chosen = [@ EXCEPT ![pick] = @ + 1],
           ![t].available = [@ EXCEPT ![pick] = @ - 1],
           ![t].left = @ - 1]
    /\ UNCHANGED <<clients, registry_lock, pool_lock, pool_has_lock>>
    /\ UNCHANGED <<connections, rejected, running>>
    /\ UNCHANGED <<tradeVars, turnVars, listVars, storeVars, roundVars>>

\* assign_list: return chosen, and the lock released on the way out
AssignListReturn(t) ==
    /\ threads[t].pc = "picking"
    /\ threads[t].left = 0
    /\ pool_lock' = IF pool_has_lock THEN 0 ELSE pool_lock
    /\ threads' = [threads EXCEPT ![t].pc = "done"]
    /\ UNCHANGED <<pool, clients, registry_lock, pool_has_lock>>
    /\ UNCHANGED <<connections, rejected, running>>
    /\ UNCHANGED <<tradeVars, turnVars, listVars, storeVars, roundVars>>

NextJoins ==
    \/ \E t \in Handlers : AddClientLock(t)
    \/ \E t \in Handlers : AddClientBody(t)
    \/ \E t \in Handlers : AssignListBegin(t)
    \/ \E t \in Handlers, pick \in PoolValues : AssignListPick(t, pick)
    \/ \E t \in Handlers : AssignListReturn(t)

SpecJoins == InitJoins /\ [][NextJoins]_vars

ListValues == -1..NumValues

Lists == UNION {[1..n -> ListValues] : n \in 0..MaxLen}

\* list.remove(x): the first x leaves the list
list_remove(l, x) ==
    LET k == CHOOSE i \in DOMAIN l :
                 l[i] = x /\ \A j \in DOMAIN l : l[j] = x => i <= j
    IN  [i \in 1..(Len(l) - 1) |-> IF i < k THEN l[i] ELSE l[i + 1]]

\* a NumberList after load() or update(numbers)
InitList ==
    /\ PeersIdle
    /\ IndexIdle
    /\ StoreIdle
    /\ RoundIdle
    /\ CallsIdle
    /\ number_list \in Lists
    /\ answer = "none"

\* a call of NumberList.is_complete_set()
IsCompleteSet ==
    /\ answer' = IF NumberList_is_complete_set(number_list)
                 THEN "True" ELSE "False"
    /\ UNCHANGED number_list
    /\ UNCHANGED <<tradeVars, turnVars, indexVars, storeVars, roundVars, callVars>>

\* self.numbers.numbers.remove(x), as a trade does it
ListRemove(x) ==
    /\ x \in set(number_list)
    /\ number_list' = list_remove(number_list, x)
    /\ answer' = "none"
    /\ UNCHANGED <<tradeVars, turnVars, indexVars, storeVars, roundVars, callVars>>

\* self.numbers.numbers.append(x), as a trade does it
ListAppend(x) ==
    /\ Len(number_list) < MaxLen
    /\ number_list' = Append(number_list, x)
    /\ answer' = "none"
    /\ UNCHANGED <<tradeVars, turnVars, indexVars, storeVars, roundVars, callVars>>

NextList ==
    \/ IsCompleteSet
    \/ \E x \in ListValues : ListRemove(x)
    \/ \E x \in ListValues : ListAppend(x)

SpecList == InitList /\ [][NextList]_vars

\* ------------------------------------------------ store demo (SpecStore)
\* The inventory service has started with its catalogue; the middleware
\* serves one middleWareController request at a time.
InitStore ==
    /\ PeersIdle
    /\ IndexIdle
    /\ ListIdle
    /\ RoundIdle
    /\ CallsIdle
    /\ productos = [id \in Products |-> InitialStock]
    /\ carrito_compras = <<>>
    /\ sale = "idle"

\* middleWareController up to validar_stock_disponible: cargar_productos,
\* enviar_productos_tienda (the cart tienda.ordenar returns is stored) and
\* enviar_compras_ventas
Ordenar(carrito) ==
    /\ sale = "idle"
    /\ carrito_compras' = carrito
    /\ sale' = "validar"
    /\ UNCHANGED productos
    /\ UNCHANGED <<tradeVars, turnVars, indexVars, listVars, roundVars, callVars>>

\* validar_stock_disponible: the inventory service answers validar_stock;
\* without stock the operation is cancelled
ValidarStockDisponible ==
    /\ sale = "validar"
    /\ sale' = IF validar_stock(productos, carrito_compras)
               THEN "facturar" ELSE "idle"
    /\ UNCHANGED <<productos, carrito_compras>>
    /\ UNCHANGED <<tradeVars, turnVars, indexVars, listVars, roundVars, callVars>>

\* pedir_genrar_factura: contabilidad writes the invoice and the inventory
\* service answers actualizar_inventario(carrito, "venta"); when the invoice
\* request fails the inventory is not notified.  The rest of the flow hands
\* the invoice to the store.
PedirGenerarFactura(facturado) ==
    /\ sale = "facturar"
    /\ productos' = IF facturado
                    THEN actualizar_inventario(productos, carrito_compras,
                                               "venta")
                    ELSE productos
    /\ sale' = "idle"
    /\ UNCHANGED carrito_compras
    /\ UNCHANGED <<tradeVars, turnVars, indexVars, listVars, roundVars, callVars>>

NextStore ==
    \/ \E carrito \in Carts : Ordenar(carrito)
    \/ ValidarStockDisponible
    \/ \E facturado \in BOOLEAN : PedirGenerarFactura(facturado)

SpecStore == InitStore /\ [][NextStore]_vars

\* ------------------------------------------------------------------ claims
Quiescent ==
    \A id \in DOMAIN conns :
        conns[id].server # "queued" /\ conns[id].client # "waiting"

\* C1: whenever no trade request or reply is in flight, every value's total
\* over all peers equals the number of peers (conservation).
C1_Conservation ==
    Quiescent => \A v \in Values : Total(numbers, v) = NumPeers

\* C2: a trade the responder accepted has, once the initiator's attempt has
\* returned, been applied exactly once on each side (no double-apply, no
\* one-sided apply).
C2_NoDoubleApply ==
    \A id \in DOMAIN conns :
        (conns[id].server = "handled" /\ IsAccepted(conns[id].out)
            /\ conns[id].client = "closed")
        => (conns[id].applied_by_responder = 1
            /\ conns[id].applied_by_initiator = 1)

\* C3: the run loop terminates (after at most max_rounds iterations).
C3_RunTerminates == <>(pc = "done")

\* C4: a wait-loop test made in the peer's own slot, after the active turn
\* had moved away since complete_my_turn, finds the completed flag reset and
\* is_my_turn() true.
C4_FlagResetsOnReturn ==
    [][(pc = "wait" /\ away /\ get_current_turn(now) = my_turn /\ pc' # pc)
          => (pc' = "start" /\ ~my_turn_completed')]_vars

\* C5: at every instant exactly one turn index equals the active turn, so
\* no other peer's turn is active while is_my_turn() holds.
C5_OneActiveTurn ==
    /\ Cardinality({q \in Peers : get_current_turn(now) = q}) = 1
    /\ is_my_turn => \A q \in Peers : q # my_turn => get_current_turn(now) # q

C5_Witness ==
    /\ is_my_turn
    /\ my_turn = NumPeers
    /\ pc = "negotiate"

\* C6: every trade request is sent while the active turn is the sender's own.
C6_SendsOnlyInOwnTurn ==
    last_sent_turn # 0 => last_sent_turn = my_turn

\* C11: attempt_trade changes the initiator's inventory only when it ends
\* with an accepted reply, and then by removing one copy of the offered value
\* and adding the card received; every other ending returns False and leaves
\* the inventory as it was.
C11_AttemptTradeEffect ==
    [][\A p \in Peers :
          IF att[p] # 0 /\ att'[p] = 0 /\ conns'[att[p]].result = "True"
          THEN /\ says_accepted(conns[att[p]].out)
               /\ numbers'[p] =
                      append(remove(numbers[p],
                                    conns[att[p]].payload.request.offer.val),
                             conns[att[p]].out[1].given)
          ELSE numbers'[p] = numbers[p]]_vars

\* C12: in a run without failures the peer's inventory is eventually
\* complete.
C12_EventuallyComplete == <>collection_complete

\* C13: once the inventory is complete the run loop eventually terminates.
C13_CompleteTerminates == collection_complete ~> (pc = "done")

\* C14 as stated: a trade request that is in the listen queue while the
\* peer waits for its turn or idles out its slot is eventually read and
\* answered.
C14_AnsweredDuringWait ==
    \A id \in 1..MaxTrades :
        (/\ id \in DOMAIN conns
         /\ conns[id].server = "queued"
         /\ pc \in {"wait", "poll", "idle"})
        ~> (/\ id \in DOMAIN conns
            /\ conns[id].server = "handled"
            /\ Len(conns[id].out) = 1)

\* C14: a trade request that is in the listen queue while the peer waits
\* for its turn or idles out its slot is eventually read and answered with
\* one line, unless the run loop ends first (run() then closes the socket).
C14_AnsweredUnlessRunEnds ==
    \A id \in 1..MaxTrades :
        (/\ id \in DOMAIN conns
         /\ conns[id].server = "queued"
         /\ pc \in {"wait", "poll", "idle"})
        ~> (\/ /\ id \in DOMAIN conns
               /\ conns[id].server = "handled"
               /\ Len(conns[id].out) = 1
            \/ pc = "done")

\* a request was answered in the wait that follows the peer's own turn
C14_Witness ==
    /\ pc \in {"wait", "poll"}
    /\ my_turn_completed
    /\ processed[my_turn] > 0
    /\ \E id \in DOMAIN conns :
           /\ conns[id].server = "handled"
           /\ Len(conns[id].out) = 1

\* C15: a call of process_once() returns at once, having touched nothing,
\* when the server was not started or nothing is pending; otherwise it
\* handles the first connections of the listen queue, at most
\* max_connections_per_cycle of them, waits no longer than the read timeout
\* for each, and leaves the rest queued in order.
C15_BoundedBatch ==
    [][\A q \in Peers :
          (ProcessOnce(q) \/ ProcessOnceIdle(q))
          => LET n == processed'[q]
             IN  /\ n \in 0..max_connections_per_cycle
                 /\ blocked_for'[q] <= n * read_timeout
                 /\ (sock[q] # "listening" \/ backlog[q] = <<>>)
                    => /\ n = 0
                       /\ blocked_for'[q] = 0
                       /\ UNCHANGED <<numbers, sock, backlog, conns>>
                 /\ backlog'[q] = SubSeq(backlog[q], n + 1, Len(backlog[q]))
                 /\ \A k \in 1..Len(backlog[q]) :
                        conns'[backlog[q][k]].server =
                            IF k <= n THEN "handled" ELSE "queued"]_vars

\* a call handled max_connections_per_cycle connections and left one queued
C15_Witness ==
    /\ processed[1] = max_connections_per_cycle
    /\ backlog[1] # <<>>
    /\ Cardinality({id \in DOMAIN conns : conns[id].server = "handled"})
           = max_connections_per_cycle

\* the handled connections of SpecOpen's clients
Handled == {id \in DOMAIN conns : conns[id].server = "handled"}

\* C16: every handled connection that delivered a payload, from a client
\* that stays to read the reply, was sent exactly one line and then closed:
\* accepted or rejected for a trade, unknown_action for another action,
\* invalid_json for a payload that is no JSON object.
C16_OneReplyLine ==
    \A id \in Handled :
        LET payload == conns[id].payload
            out == conns[id].out
        IN  (payload.data \notin {"empty", "silent"} /\ ~gone(payload))
            => /\ Len(out) = 1
               /\ conns[id].sent
               /\ conns[id].closed
               /\ IF payload.data = "json"
                  THEN IF payload.request.action = "trade"
                       THEN out[1].status \in {"accepted", "rejected"}
                       ELSE out[1] = Error("unknown_action")
                  ELSE out[1] = Error("invalid_json")

\* C17: whatever happens while a connection is handled (read timeout, reset,
\* empty payload, malformed or out-of-range fields, failed send), no
\* exception leaves the handler, the connection is closed, the server goes
\* on listening, and the responder's inventory is as before unless the trade
\* was accepted.
C17_NoErrorPropagates ==
    \A id \in Handled :
        /\ ~conns[id].escaped
        /\ conns[id].closed
        /\ sock[conns[id].to] = "listening"
        /\ ~IsAccepted(conns[id].out) => conns[id].post = conns[id].pre

\* an exception was raised while handling, after an accepted trade or not
C17_Witness ==
    \E id \in Handled :
        /\ handler_raises(conns[id].payload) # ""
        /\ conns[id].closed
        /\ ~IsAccepted(conns[id].out)
        /\ numbers[conns[id].to] = conns[id].pre

\* C18: for the elapsed times around the clock reading, in every cycle up to
\* MaxCycles: get_current_turn is (q mod total_clients) + 1 for the whole
\* number q of turn_durations that have elapsed, lies in 1..total_clients,
\* equals turn at k*turn_duration*total_clients + (turn-1)*turn_duration,
\* moves to the cyclic successor one turn_duration later, and from one
\* clock reading to the next either stays or moves to the cyclic successor.
C18_TurnDeterminism ==
    [][/\ \A k \in 0..MaxCycles,
             d \in {0, 1, (turn_duration \div TicksPerSlot) - 1} :
             LET elapsed == now + d + k * cycle_duration
                 current == get_current_turn(elapsed)
             IN  /\ \E q \in 0..((MaxCycles + 1) * total_clients) :
                        /\ q * turn_duration <= elapsed
                        /\ elapsed < (q + 1) * turn_duration
                        /\ current = (q % total_clients) + 1
                 /\ current \in 1..total_clients
                 /\ get_current_turn(elapsed + turn_duration)
                        = (current % total_clients) + 1
       /\ \A k \in 0..MaxCycles, turn \in 1..total_clients :
             get_current_turn(k * turn_duration * total_clients
                                 + (turn - 1) * turn_duration) = turn
       /\ get_current_turn(now') \in
              {get_current_turn(now),
               (get_current_turn(now) % total_clients) + 1}]_vars

\* the clock is read in the last slot of a cycle, just before it wraps
C18_Witness ==
    /\ pc = "poll"
    /\ get_current_turn(now) = total_clients
    /\ get_current_turn(NextSample(now)) = 1

\* C19: a call of negotiate() on a complete inventory returns True, opens no
\* connection and leaves every inventory as it was.
C19_CompleteIsNoOp ==
    [][\A p \in Peers :
          (/\ ~negotiating[p]
           /\ is_complete_set(numbers[p])
           /\ <<negotiate_result[p], negotiating[p]>>'
                  # <<negotiate_result[p], negotiating[p]>>)
          => (/\ negotiate_result'[p] = "True"
              /\ ~negotiating'[p]
              /\ conns' = conns
              /\ numbers' = numbers)]_vars

C19_Witness ==
    /\ is_complete_set(numbers[1])
    /\ negotiate_result[1] = "True"
    /\ ~negotiating[1]
    /\ conns = <<>>

\* C20: once a trade of the pass has completed the inventory, the pass opens
\* no further connection, and when it returns it returns True.
C20_StopsWhenComplete ==
    [][\A p \in Peers :
          (negotiating[p] /\ is_complete_set(numbers[p]))
          => (/\ Len(conns') = Len(conns)
              /\ ~negotiating'[p] => negotiate_result'[p] = "True")]_vars

C20_Witness ==
    /\ is_complete_set(numbers[1])
    /\ ~negotiating[1]
    /\ negotiate_result[1] = "True"
    /\ Len(conns) < MaxRequests
    /\ \E id \in 1..Len(conns) :
           /\ conns[id].from = 1
           /\ conns[id].result = "True"
           /\ ~is_complete_set(remove(numbers[1], conns[id].out[1].given))

\* the handled connections that carried a trade request
HandledTrades ==
    {id \in DOMAIN conns :
        /\ conns[id].server = "handled"
        /\ conns[id].payload.data = "json"
        /\ conns[id].payload.request.action = "trade"}

IsValue(x) == ~x.isNone /\ ~is_text(x) /\ x.val \in Values

Offer(id) == conns[id].payload.request.offer
Want(id) == conns[id].payload.request.want

\* C7: a trade whose wanted value the responder does not hold is rejected,
\* whatever number (or none) is offered, and the responder's inventory is
\* unchanged.
C7_RejectWhenWantNotHeld ==
    \A id \in HandledTrades :
        (IsValue(Want(id)) /\ ~is_text(Offer(id))
            /\ conns[id].pre[Want(id).val] = 0)
        => /\ Len(conns[id].out) = 1
           /\ conns[id].out[1].status = "rejected"
           /\ conns[id].post = conns[id].pre
           /\ conns[id].applied_by_responder = 0

C7_Witness ==
    \E id \in HandledTrades :
        /\ IsValue(Want(id)) /\ IsValue(Offer(id))
        /\ conns[id].pre[Want(id).val] = 0
        /\ conns[id].pre[Offer(id).val] = 0
        /\ conns[id].out[1].status = "rejected"

\* C8: a trade is accepted whenever the responder holds at least one copy of
\* the wanted value and none of the offered value.
C8_AcceptWhenOfferNotHeld ==
    \A id \in HandledTrades :
        (IsValue(Want(id)) /\ IsValue(Offer(id))
            /\ conns[id].pre[Want(id).val] >= 1
            /\ conns[id].pre[Offer(id).val] = 0)
        => IsAccepted(conns[id].out)

C8_Witness ==
    \E id \in HandledTrades :
        /\ IsValue(Want(id)) /\ IsValue(Offer(id))
        /\ conns[id].pre[Want(id).val] = 1
        /\ conns[id].pre[Offer(id).val] = 0
        /\ IsAccepted(conns[id].out)

\* C9: when the responder holds the offered and the wanted value, it accepts
\* if it holds more than one copy of the wanted value; with a single copy it
\* accepts only if the swap strictly decreases its number of missing values,
\* and otherwise rejects with a non-empty reason.
C9_HoldsOffer ==
    \A id \in HandledTrades :
        (IsValue(Want(id)) /\ IsValue(Offer(id))
            /\ conns[id].pre[Want(id).val] >= 1
            /\ conns[id].pre[Offer(id).val] >= 1)
        => LET pre == conns[id].pre
               swapped == append(remove(pre, Want(id).val), Offer(id).val)
               out == conns[id].out
           IN  IF pre[Want(id).val] > 1
               THEN IsAccepted(out)
               ELSE /\ IsAccepted(out)
                       => missing_count(swapped) < missing_count(pre)
                    /\ ~IsAccepted(out)
                       => /\ Len(out) = 1
                          /\ out[1].status = "rejected"
                          /\ out[1].reason # ""

C9_Witness ==
    \E id \in HandledTrades :
        /\ IsValue(Want(id)) /\ IsValue(Offer(id))
        /\ conns[id].pre[Want(id).val] = 1
        /\ conns[id].pre[Offer(id).val] >= 1
        /\ conns[id].out[1].status = "rejected"

\* C10: an accepted trade takes exactly one copy of the wanted value out of
\* the responder's inventory and puts one copy of the offered value in,
\* leaves every other count alone, and answers {accepted, given: want}.
C10_AcceptEffect ==
    \A id \in HandledTrades :
        IsAccepted(conns[id].out)
        => /\ IsValue(Want(id)) /\ IsValue(Offer(id))
           /\ \A v \in Values :
                  conns[id].post[v] =
                      conns[id].pre[v]
                      - (IF v = Want(id).val THEN 1 ELSE 0)
                      + (IF v = Offer(id).val THEN 1 ELSE 0)
           /\ conns[id].pre[Want(id).val] >= 1
           /\ conns[id].out =
                  <<[status |-> "accepted", given |-> Want(id).val]>>
           /\ conns[id].applied_by_responder = 1

C10_Witness ==
    \E id \in HandledTrades :
        /\ IsAccepted(conns[id].out)
        /\ Want(id).val # Offer(id).val
        /\ numbers[conns[id].to] = conns[id].post
        /\ conns[id].post # conns[id].pre

\* ------------------------------ SpecRound: one negotiate_with_peer call
\* One peer calls negotiate_with_peer(peer) on an inventory of HandSize
\* cards, in a cohort of CohortSize peers; every attempt_trade gets what the
\* other end of the connection sends: nothing, or one line (rejected,
\* accepted with any card, accepted without "given", or a line that is no
\* JSON object).
InitRound ==
    /\ \E h \in Hands, stored \in StoredPeers :
           frame = [NoFrame EXCEPT !.pc = "for_attempt",
                                   !.numbers = h,
                                   !.total_peers = stored - 1]
    /\ PeersIdle
    /\ IndexIdle
    /\ ListIdle
    /\ StoreIdle
    /\ CallsIdle

\* the end of negotiate_with_peer: return trades_made > 0
return_trades_made(f) ==
    [f EXCEPT !.pc = "returned",
              !.returned = IF f.trades_made > 0 THEN "True" ELSE "False"]

\* the head of `for attempt in range(max_attempts_per_peer)` down to the
\* shuffle; shuffled is what random.shuffle left in duplicates_shuffled[:2]
BeginAttempt ==
    /\ frame.pc = "for_attempt"
    /\ LET opp == get_trade_opportunities(frame.numbers)
       IN  IF frame.attempt = max_attempts_per_peer(frame.total_peers)
           THEN frame' = return_trades_made(frame)
           ELSE IF hand_is_complete_set(frame.numbers)
           THEN frame' = [frame EXCEPT !.pc = "returned", !.returned = "True"]
           ELSE IF opp.duplicates = {} \/ opp.missing = {}
           THEN frame' = return_trades_made(frame)
           ELSE \E shuffled \in shuffled_first_2(opp.duplicates) :
                   frame' = [frame EXCEPT
                       !.pc = "attempt_trade",
                       !.missing_prioritized = sorted_first_3(opp.missing),
                       !.duplicates_shuffled = shuffled,
                       !.trade_made = FALSE,
                       !.want = 1,
                       !.offer = 1]
    /\ UNCHANGED <<tradeVars, turnVars, indexVars, listVars, storeVars,
                   callVars>>

\* the lines a connection can deliver to attempt_trade
RoundReplies ==
    {<<>>} \cup {<<l>> : l \in {Rejected("x"), [malformed |-> TRUE],
                                [status |-> "accepted"]}
                               \cup {Accepted(g) : g \in RoundValues}}

\* one attempt_trade(peer, offer, want) of the nested loops and the control
\* flow after it, up to the next attempt_trade, loop head or return
AttemptTradeInRound(out) ==
    /\ frame.pc = "attempt_trade"
    /\ out \in RoundReplies
    /\ LET offer == frame.duplicates_shuffled[frame.offer]
           r == apply_reply(frame.numbers, offer, out)
           f == [frame EXCEPT
                    !.numbers = r.numbers,
                    !.removed = IF ~says_accepted(out) THEN "none"
                                ELSE IF frame.numbers[offer] >= 1 THEN "held"
                                ELSE "not_held"]
       IN  IF r.result = "True"
           THEN IF hand_is_complete_set(r.numbers)
                THEN frame' = [f EXCEPT !.trades_made = @ + 1,
                                        !.trade_made = TRUE,
                                        !.pc = "returned",
                                        !.returned = "True"]
                ELSE frame' = [f EXCEPT !.trades_made = @ + 1,
                                        !.trade_made = TRUE,
                                        !.attempt = @ + 1,
                                        !.pc = "for_attempt"]
           ELSE IF frame.offer < Len(frame.duplicates_shuffled)
           THEN frame' = [f EXCEPT !.offer = @ + 1]
           ELSE IF frame.want < Len(frame.missing_prioritized)
           THEN frame' = [f EXCEPT !.want = @ + 1, !.offer = 1]
           ELSE frame' = return_trades_made(f)
    /\ UNCHANGED <<tradeVars, turnVars, indexVars, listVars, storeVars,
                   callVars>>

NextRound ==
    \/ BeginAttempt
    \/ \E out \in RoundReplies : AttemptTradeInRound(out)

SpecRound == InitRound /\ [][NextRound]_vars

\* --- C21..C30
\* copies of value v the index has handed out so far
handed_out(v) ==
    LET S[k \in 0..Len(connections)] ==
            IF k = 0 THEN 0 ELSE S[k - 1] + connections[k].numbers[v]
    IN  S[Len(connections)]

\* C21: for every value the pool remainder is never negative and, together
\* with the copies handed out, equals TOTAL_CLIENTS (so the pool starts with
\* TOTAL_CLIENTS copies of each value); once TOTAL_CLIENTS joins were handled
\* every one of them was given a full list and the pool is empty.
C21_PoolConserved ==
    /\ \A v \in PoolValues :
           /\ pool[v] >= 0
           /\ pool[v] + handed_out(v) = TOTAL_CLIENTS
    /\ Len(connections) = TOTAL_CLIENTS =>
           /\ \A v \in PoolValues : pool[v] = 0
           /\ \A id \in DOMAIN connections :
                  len(connections[id].numbers) = list_length

C21_Witness ==
    /\ Len(connections) = TOTAL_CLIENTS
    /\ \A v \in PoolValues : pool[v] = 0
    /\ \E id \in DOMAIN connections :
           \E v \in PoolValues : connections[id].numbers[v] >= 2

\* C22: every connection that joined was given a turn in 1..TOTAL_CLIENTS,
\* two of them that registered different names were given different turns,
\* and a name that registered again was given the turn it had.
C22_UniqueTurns ==
    \A i \in DOMAIN connections :
        /\ connections[i].turn \in 1..TOTAL_CLIENTS
        /\ \A j \in DOMAIN connections :
               IF connections[i].name = connections[j].name
               THEN connections[i].turn = connections[j].turn
               ELSE connections[i].turn # connections[j].turn

\* the index wrote ok to the connection c
got_ok(c) == \E k \in DOMAIN c.lines : c.lines[k].status = "ok"

\* C23: a connection that joined while the group was not full was answered
\* waiting; an ok is only written when TOTAL_CLIENTS joins were handled, it
\* lists TOTAL_CLIENTS peers and carries the numbers and the turn of its
\* connection, every connection gets it with the same list, and it is
\* followed by done and the close; join() returns the ok it read and None
\* when there was none.
C23_JoinBarrier ==
    \A id \in DOMAIN connections :
        LET c == connections[id]
        IN  /\ id < TOTAL_CLIENTS => c.lines # <<>> /\ c.lines[1] = Waiting
            /\ got_ok(c) =>
                   /\ Len(connections) = TOTAL_CLIENTS
                   /\ \A other \in DOMAIN connections :
                          got_ok(connections[other])
            /\ \A k \in DOMAIN c.lines :
                   c.lines[k].status = "ok" =>
                       /\ Len(c.lines[k].peers) = TOTAL_CLIENTS
                       /\ c.lines[k].peers = clients
                       /\ c.lines[k].numbers = c.numbers
                       /\ c.lines[k].turn = c.turn
                       /\ k < Len(c.lines)
                       /\ c.lines[k + 1] = Done
                       /\ ~c.open
            /\ c.got # Pending =>
                   IF got_ok(c) THEN c.got.status = "ok" ELSE c.got = NoResponse

\* the request of connection id is the one of the scenario: offer 0, want 2
offers_0_wants_2(id) ==
    /\ conns[id].from \in Peers
    /\ Offer(id) = Num(0)
    /\ Want(id) = Num(2)

\* the step in which the responder of connection id handles it
responder_handles(id) ==
    /\ conns[id].server = "queued"
    /\ conns'[id].server = "handled"

\* the step in which the initiator of connection id applies an accepted reply
initiator_applies(id) ==
    /\ att[conns[id].from] = id
    /\ att'[conns[id].from] = 0
    /\ conns'[id].result = "True"

\* C24 as stated: A holds [0,0,1], B holds [1,2,2] and A offers 0 for 2.  B
\* accepts; afterwards A holds [0,1,2] and B holds [1,1,2], and the totals
\* of 0 and of 2 are what they were.
C24_Scenario ==
    [][\A id \in DOMAIN conns :
          offers_0_wants_2(id) =>
              LET A == conns[id].from
                  B == conns[id].to
              IN  /\ (responder_handles(id)
                      /\ numbers[B] = counts(<<1, 2, 2>>))
                     => /\ conns'[id].out = <<Accepted(2)>>
                        /\ numbers'[B] = counts(<<1, 1, 2>>)
                  /\ (initiator_applies(id)
                      /\ numbers[A] = counts(<<0, 0, 1>>)
                      /\ conns[id].pre = counts(<<1, 2, 2>>))
                     => /\ numbers'[A] = counts(<<0, 1, 2>>)
                        /\ numbers'[B] = counts(<<1, 1, 2>>)
                        /\ \A v \in {0, 2} :
                               numbers'[A][v] + numbers'[B][v] = 2]_vars

\* C24: A holds [0,0,1], B holds [1,2,2] and A offers 0 for 2.  B accepts
\* and answers with the 2; afterwards A holds [0,1,2] and B holds [0,1,2]
\* (B gave a 2 and took the 0), and the totals of 0 and of 2 are what they
\* were.
C24_ScenarioAsAmended ==
    [][\A id \in DOMAIN conns :
          offers_0_wants_2(id) =>
              LET A == conns[id].from
                  B == conns[id].to
              IN  /\ (responder_handles(id)
                      /\ numbers[B] = counts(<<1, 2, 2>>))
                     => /\ conns'[id].out = <<Accepted(2)>>
                        /\ numbers'[B] = counts(<<0, 1, 2>>)
                  /\ (initiator_applies(id)
                      /\ numbers[A] = counts(<<0, 0, 1>>)
                      /\ conns[id].pre = counts(<<1, 2, 2>>))
                     => /\ numbers'[A] = counts(<<0, 1, 2>>)
                        /\ numbers'[B] = counts(<<0, 1, 2>>)
                        /\ \A v \in {0, 2} :
                               numbers'[A][v] + numbers'[B][v] = 2]_vars

C24_Witness ==
    \E id \in DOMAIN conns :
        /\ offers_0_wants_2(id)
        /\ conns[id].pre = counts(<<1, 2, 2>>)
        /\ conns[id].result = "True"
        /\ numbers[conns[id].from] = counts(<<0, 1, 2>>)
        /\ numbers[conns[id].to] = counts(<<0, 1, 2>>)

\* the handled trades that ask a responder for a value it has no spare of
WithoutSpare ==
    {id \in HandledTrades :
        /\ IsValue(Want(id))
        /\ IsValue(Offer(id))
        /\ conns[id].pre[Want(id).val] <= 1}

\* the reasons that cite the count of the wanted value
InsufficientCount == {"no tengo", "ya tengo la oferta y necesito mi unico"}

C26_CompleteSetCheck ==
    [][answer' # "none" =>
          /\ number_list' = number_list
          /\ (answer' = "True") =
                 (\A v \in Values : counts(number_list)[v] >= 1)
          /\ answer' \in {"True", "False"}
          /\ answer # "none" => answer' = answer]_vars

C26_Witness ==
    /\ answer = "True"
    /\ Len(number_list) > NumValues

\* C27: after any sequence of sale flows no product's stock in the inventory
\* service is negative.
C27_StockNeverNegative == \A id \in Products : productos[id] >= 0

\* every value's total over all peers is the number of peers
Conserved == \A v \in Values : Total(numbers, v) = NumPeers

\* the responder q would accept p's request of want for offer
would_accept(q, p, offer, want) ==
    process_trade(numbers[q], TradeRequest(p, Num(offer), Num(want)))
        .response.status = "accepted"

C29_RemoveHeld == frame.removed # "not_held"

\* C30: a peer's inventory size never changes; after any sequence of
\* trades, rejected and failed attempts included, every peer holds exactly
\* the number of cards it was allocated.
C30_InventorySize ==
    \A p \in Peers :
        LET S[k \in 0..NumValues] ==
                IF k = 0 THEN 0 ELSE S[k - 1] + numbers[p][k - 1]
        IN  S[NumValues] = NumValues

\* --- C31..C40

\* C31: every trade request a peer sends offers a value it holds more than
\* once and wants a value it holds no copy of at the time of sending.
C31_OffersDuplicateWantsMissing ==
    frame.pc = "attempt_trade" =>
        /\ frame.numbers[frame.duplicates_shuffled[frame.offer]] > 1
        /\ frame.numbers[frame.missing_prioritized[frame.want]] = 0

\* C32: within one occurrence of its slot a peer runs negotiate() at most
\* once.  complete_my_turn() sets the completed flag and a second call
\* leaves it as it is; from then to the end of that slot is_my_turn() is
\* false, no negotiate() pass is under way or started, and the flag is not
\* cleared.
C32_OncePerSlot ==
    [][/\ (pc = "complete_turn" /\ pc' # "complete_turn") =>
              /\ my_turn_completed'
              /\ complete_my_turn(my_turn_completed') = my_turn_completed'
       /\ (my_turn_completed /\ ~away) =>
              /\ ~is_my_turn
              /\ pc \notin {"start", "negotiate", "awaiting", "complete_turn"}
              /\ pc' \notin {"start", "negotiate", "awaiting"}
       /\ (my_turn_completed /\ ~away') => my_turn_completed']_vars

\* the slot in which complete_my_turn() was called is still on, a clock
\* sample later
C32_Witness ==
    /\ my_turn_completed
    /\ ~away
    /\ get_current_turn(now) = my_turn
    /\ now % turn_duration # 0
    /\ pc \in {"idle", "loop", "wait", "poll"}

\* C33: a negotiate() pass is started only when the active turn is the
\* peer's own and the completed flag is unset: it is entered from
\* start_my_turn() alone, at a moment where that holds, and a round whose
\* re-check fails goes back to the top of the loop without negotiating.
C33_PassStartsInOwnTurn ==
    [][/\ (pc # "negotiate" /\ pc' = "negotiate") =>
              \/ pc = "awaiting"
              \/ /\ pc = "start"
                 /\ get_current_turn(now) = my_turn
                 /\ ~my_turn_completed
       /\ (/\ pc = "start"
           /\ pc' # "start"
           /\ ~(get_current_turn(now) = my_turn /\ ~my_turn_completed)) =>
              /\ pc' = "loop"
              /\ requests' = 0]_vars

\* start_my_turn() is about to re-check, and the active turn has moved on
\* since wait_for_my_turn() returned
C33_Witness ==
    /\ pc = "start"
    /\ get_current_turn(now) # my_turn

\* attempts of the loop of negotiate_with_peer begun so far
attempts_made(f) == f.attempt + (IF f.pc = "attempt_trade" THEN 1 ELSE 0)

\* requests sent in the attempt under way, the one about to be sent included
requests_in_attempt(f) == (f.want - 1) * Len(f.duplicates_shuffled) + f.offer

\* negotiate_with_peer makes at most `limit` attempts; an attempt sends at
\* most 6 requests, ends with its first completed trade, and when it
\* completes none the call returns
bounded_requests(limit) ==
    /\ attempts_made(frame) <= limit
    /\ frame.trades_made <= attempts_made(frame)
    /\ frame.pc = "attempt_trade" =>
           /\ Len(frame.missing_prioritized) <= 3
           /\ Len(frame.duplicates_shuffled) <= 2
           /\ requests_in_attempt(frame) <= 6
           /\ \/ /\ frame'.pc = "attempt_trade"
                 /\ frame'.attempt = frame.attempt
                 /\ frame'.trades_made = frame.trades_made
                 /\ requests_in_attempt(frame') = requests_in_attempt(frame) + 1
              \/ /\ frame'.trades_made = frame.trades_made + 1
                 /\ frame'.pc \in {"for_attempt", "returned"}
              \/ /\ frame'.trades_made = frame.trades_made
                 /\ frame'.pc = "returned"

C35_OneAfterAnother ==
    LET handled == {id \in DOMAIN conns : conns[id].server = "handled"}
    IN  /\ \A i, j \in handled :
               (i < j /\ \A k \in handled : ~(i < k /\ k < j)) =>
                   conns[j].pre = conns[i].post
        /\ \A j \in handled :
               LET h == handle_connection_sync(conns[j].pre, conns[j].payload)
               IN  /\ conns[j].out = h.out
                   /\ conns[j].post = h.numbers
                   /\ (\A k \in handled : k <= j) => numbers[1] = conns[j].post

\* one process_once() handled two trades, the first changed the inventory,
\* and the second got another answer than the inventory before the first
\* would have given it
C35_Witness ==
    /\ processed[1] = 2
    /\ Len(conns) = 2
    /\ conns[1].post # conns[1].pre
    /\ conns[2].server = "handled"
    /\ conns[2].out #
           handle_connection_sync(conns[1].pre, conns[2].payload).out

\* the pool never goes below zero and no more copies of a value are in the
\* handlers' lists than the pool gave up
pool_intact ==
    \A v \in PoolValues :
        /\ pool[v] >= 0
        /\ pool[v] + threads[1].chosen[v] + threads[2].chosen[v] = TOTAL_CLIENTS
        /\ threads[1].chosen[v] + threads[2].chosen[v] <= TOTAL_CLIENTS

\* every handler that is through add_client is registered, once
registry_intact ==
    /\ \A i, j \in DOMAIN clients : i # j => clients[i] # clients[j]
    /\ \A t \in Handlers :
           threads[t].pc \in {"assign_list", "picking", "done"} =>
               \E i \in DOMAIN clients : clients[i] = threads[t].name

\* C36: concurrent join handlers cannot corrupt the allocator: whatever the
\* interleaving of the add_client() and assign_list() calls, no card is
\* handed out twice, no pool count goes negative, no registration is lost
\* and no name is registered twice.
C36_AllocatorSafe == pool_intact /\ registry_intact

\* C36 as amended: the registry is safe; the pool is safe where assign_list
\* runs under the lock of its class.
C36_AllocatorSafeAsAmended ==
    /\ registry_intact
    /\ pool_has_lock => pool_intact

\* handler 1 is picking inside the locked assign_list while handler 2 is
\* at its own assign_list call, kept out by the lock
C36_Witness ==
    /\ pool_has_lock
    /\ pool_lock = 1
    /\ threads[1].pc = "picking"
    /\ threads[1].left < list_length
    /\ threads[2].pc = "assign_list"

total_missing(ns) ==
    LET S[k \in 0..NumPeers] ==
            IF k = 0 THEN 0 ELSE S[k - 1] + missing_count(ns[k])
    IN  S[NumPeers]

\* the trades an initiator has applied (attempt_trade returned True)
completed(cs) ==
    Cardinality({id \in 1..Len(cs) : cs[id].applied_by_initiator > 0})

decided ==
    {id \in 1..Len(conns) :
        /\ conns[id].server = "handled"
        /\ conns[id].payload.data = "json"
        /\ conns[id].payload.request.action = "trade"
        /\ ~process_trade_raises(conns[id].payload.request)
        /\ valid_numbers(conns[id].payload.request.offer,
                         conns[id].payload.request.want)}

\* C39: a responder holding exactly one copy of the wanted value and at
\* least one copy of the offered value rejects, and a request is accepted
\* exactly when count(want) >= 1 and (count(offer) = 0 or count(want) > 1),
\* the counts being those of the inventory before the request.
C39_DecisionEquivalence ==
    \A id \in decided :
        LET offer == conns[id].payload.request.offer.val
            want == conns[id].payload.request.want.val
            held == conns[id].pre
        IN  /\ (held[want] = 1 /\ held[offer] >= 1)
                   => ~IsAccepted(conns[id].out)
            /\ IsAccepted(conns[id].out)
                   <=> (held[want] >= 1
                        /\ (held[offer] = 0 \/ held[want] > 1))

\* a request for the responder's only copy of a value, offering a value it
\* holds, has been rejected
C39_Witness ==
    \E id \in decided :
        /\ conns[id].pre[conns[id].payload.request.want.val] = 1
        /\ conns[id].pre[conns[id].payload.request.offer.val] >= 1
        /\ conns[id].out # <<>>
        /\ conns[id].out[1].status = "rejected"

\* C40: an incomplete peer holds a duplicate and misses a value, so a
\* negotiate() call on an incomplete inventory does not return False for
\* want of duplicates or of missing values.
C40_IncompleteCanTrade ==
    \A p \in Peers :
        ~is_complete_set(numbers[p])
            => /\ duplicates(numbers[p]) # {}
               /\ missing(numbers[p]) # {}

=============================================================================
